---- MODULE Spec2Model ----
(***************************************************************************)
(* Scenario Financial Projection Engine of AryaIntel_CRM: the RunEngine    *)
(* handler (backend/app/api/run_engine_api.py), the fact persistence       *)
(* helpers (backend/app/engine/persist.py), the AN calculator              *)
(* (backend/app/engine/an_calculator.py) and the finance / quarterly       *)
(* scripts (backend/scripts), over one SQLite database.                    *)
(*                                                                         *)
(* Amounts are fixed-point integers: one currency unit is MoneyScale       *)
(* units, one cent is CentUnit units.  Multipliers are fixed-point with    *)
(* MultOne standing for 1.0.  SQL NULL / Python None of a numeric column   *)
(* is the integer NULL, of a text column the string NullStr.               *)
(***************************************************************************)
EXTENDS Integers, Sequences, FiniteSets, TLC

VARIABLES
    inp,      \* the scenario input tables (scenarios, scenario_boq_items, policies, twc)
    db,       \* the committed database: engine_runs and engine_facts_monthly
    work,     \* the working copy of the connection that holds the SQLite write lock
    lock,     \* the process holding the SQLite write lock, or NoProc
    pc,       \* per process: its position in its handler / script
    loc,      \* per process: its local variables
    call,     \* the last library persist call and the store it left (for repeat calls)
    calc      \* position and outputs of the single-invocation pipeline (SpecCalc)

vars == <<inp, db, work, lock, pc, loc, call, calc>>

\* ------------------------------------------------------------------ bounds
MaxRuns == 2
MaxLibCalls == 1

\* ------------------------------------------------------------ representation
NULL == 0 - 1000000
NullStr == "NULL"
MoneyScale == 6 * 100
CentUnit == MoneyScale \div 100
MultOne == 100 * 100
Money(x) == x * MoneyScale

Max(a, b) == IF a >= b THEN a ELSE b
Min(a, b) == IF a <= b THEN a ELSE b

\* x or d  (Python: a NULL or zero numeric column falls back to d)
OrElse(x, d) == IF x = NULL \/ x = 0 THEN d ELSE x
\* x if x is not None else d
IfNull(x, d) == IF x = NULL THEN d ELSE x

\* Python round(): nearest, ties to even.  n / d for d > 0.
RoundHalfEven(n, d) ==
    LET q == n \div d
        r == n % d
    IN  IF 2 * r < d THEN q
        ELSE IF 2 * r > d THEN q + 1
        ELSE IF q % 2 = 0 THEN q ELSE q + 1

\* def R(lst): return [round(x, 2) for x in lst]
R(lst) == [i \in DOMAIN lst |-> RoundHalfEven(lst[i], CentUnit) * CentUnit]

RECURSIVE SeqSum(_)
SeqSum(s) == IF s = <<>> THEN 0 ELSE Head(s) + SeqSum(Tail(s))

\* ---------------------------------------------------------------- text case
Lower(s) ==
    CASE s = "ALL" -> "all"
      [] s = "AN" -> "an"
      [] s = "EM" -> "em"
      [] s = "IE" -> "ie"
      [] s = "Services" -> "services"
      [] s = "SERVICES" -> "services"
      [] s = "CAPEX" -> "capex"
      [] OTHER -> s

Upper(s) ==
    CASE s = "all" -> "ALL"
      [] s = "an" -> "AN"
      [] s = "em" -> "EM"
      [] s = "ie" -> "IE"
      [] s = "Services" -> "SERVICES"
      [] s = "services" -> "SERVICES"
      [] s = "capex" -> "CAPEX"
      [] s = ".Revenue" -> ".REVENUE"
      [] s = ".revenue" -> ".REVENUE"
      [] s = ".Cogs" -> ".COGS"
      [] s = ".Gp" -> ".GP"
      [] OTHER -> s

\* ------------------------------------------------------------------- dates
\* y = start.year + (start.month - 1 + i) // 12 ; m = (start.month - 1 + i) % 12 + 1
YmAt(sy, sm, i) ==
    [y |-> sy + ((sm - 1 + i) \div 12), m |-> ((sm - 1 + i) % 12) + 1]

\* _ym_series: the month axis, one "YYYY-MM" text per month, built by stepping
RECURSIVE YmStep(_, _, _)
YmStep(y, m, n) ==
    IF n = 0 THEN <<>>
    ELSE <<[y |-> y, m |-> m]>> \o
         (IF m + 1 > 12 THEN YmStep(y + 1, 1, n - 1) ELSE YmStep(y, m + 1, n - 1))

YmSeries(sy, sm, count) ==
    LET s == YmStep(sy, sm, count) IN [i \in 0..(count - 1) |-> s[i + 1]]

\* y, m = ym.split("-") ; yyyymm = int(y) * 100 + int(m)
ParseYm(t) == t.y * 100 + t.m

CategoryCodes == {"AN", "EM", "IE", "Services"}
BoqCategories == {"AN", "EM", "IE"}

\* ------------------------------------------------------ Schedule Expander
\* offset = (sy - start.year) * 12 + (sm - start.month), sy/sm defaulting to the start
LineOffsetRaw(r, sy0, sm0) ==
    (IfNull(r.start_year, sy0) - sy0) * 12 + (IfNull(r.start_month, sm0) - sm0)

\* mutant: the line's start month is ignored -- every line starts at the scenario start
LineOffsetZero(r, sy0, sm0) == 0

\* if offset < 0: offset = 0
LineOffset(r, sy0, sm0) == Max(0, LineOffsetRaw(r, sy0, sm0))

\* span = min(months - offset, max(1, rm)), rm defaulting to the horizon
LineSpan(r, months, sy0, sm0) ==
    Min(months - LineOffset(r, sy0, sm0), Max(1, IfNull(r.months, months)))

\* freq = (r["frequency"] or "monthly").lower()
LineFreq(r) == IF r.frequency = NullStr \/ r.frequency = "" THEN "monthly" ELSE r.frequency

\* what one row adds to month index i of a series whose row total is `total`
LineAmount(r, total, i, months, sy0, sm0) ==
    LET offset == LineOffset(r, sy0, sm0)
        span == LineSpan(r, months, sy0, sm0)
    IN  IF offset >= months THEN 0
        ELSE IF LineFreq(r) = "once" THEN (IF i = offset THEN total ELSE 0)
        ELSE IF LineFreq(r) = "monthly"
             THEN (IF offset <= i /\ i < offset + span THEN total ELSE 0)
        ELSE (IF offset <= i /\ i < offset + span
              THEN (IF span > 0 THEN total \div span ELSE 0) ELSE 0)

LineRevTotal(r) == Money(OrElse(r.quantity, 0) * OrElse(r.unit_price, 0))
LineCogsTotal(r) == Money(OrElse(r.quantity, 0) * OrElse(r.unit_cogs, 0))

\* WHERE scenario_id = :sid AND (section = :section OR :section = 'ALL') AND is_active = 1
BoqRowSelected(r, sid, section) ==
    r.scenario_id = sid /\ (r.section = section \/ section = "ALL") /\ r.is_active = 1

ScheduleFromBoq(boq, sid, section, months, sy0, sm0) ==
    [rev |-> [i \in 0..(months - 1) |->
                SeqSum([k \in 1..Len(boq) |->
                    IF BoqRowSelected(boq[k], sid, section)
                    THEN LineAmount(boq[k], LineRevTotal(boq[k]), i, months, sy0, sm0)
                    ELSE 0])],
     cogs |-> [i \in 0..(months - 1) |->
                SeqSum([k \in 1..Len(boq) |->
                    IF BoqRowSelected(boq[k], sid, section)
                    THEN LineAmount(boq[k], LineCogsTotal(boq[k]), i, months, sy0, sm0)
                    ELSE 0])]]

\* ------------------------------------------------------------ Rise & Fall
\* tokens = ["all"] + cats if cats else ["all","an","em","ie","services","capex"]
LockTokens(selected) ==
    IF selected # <<>>
    THEN {"all"} \cup {Lower(selected[k]) : k \in 1..Len(selected)}
    ELSE {"all", "an", "em", "ie", "services", "capex"}

\* SELECT 1 ... WHERE scenario_id = :sid AND COALESCE(is_active,1) = 1 AND lower(scope) IN (tokens)
HasRiseFallPolicy(policies, sid, selected) ==
    \E k \in 1..Len(policies) :
        /\ policies[k].scenario_id = sid
        /\ IfNull(policies[k].is_active, 1) = 1
        /\ policies[k].scope # NullStr
        /\ Lower(policies[k].scope) \in LockTokens(selected)

\* mutant: simple interest -- every step adds annual_pct / 12 of the starting 1.0
FixedFactorSimple(i, pct, step) == MultOne + (MultOne * pct * (i \div step)) \div (100 * 12)

\* the factor f in front of month i of a fixed policy: f starts at 1.0 and is
\* multiplied by (1 + annual_pct / 12) after every month whose (i+1) % step == 0
RECURSIVE FixedFactor(_, _, _)
FixedFactor(i, pct, step) ==
    IF i = 0 THEN MultOne
    ELSE IF (i % step) = 0
         THEN (FixedFactor(i - 1, pct, step) * (100 * 12 + pct)) \div (100 * 12)
         ELSE FixedFactor(i - 1, pct, step)

\* does the policy row apply to the category being built
PolicyMatches(r, category) ==
    LET scope == Upper(IF r.scope = NullStr \/ r.scope = "" THEN "ALL" ELSE r.scope)
    IN  /\ scope \in {"ALL", "AN", "EM", "IE", "SERVICES"}
        /\ ~ (scope # "ALL" /\
                ((scope = "SERVICES" /\ category # "Services") \/
                 (scope # "SERVICES" /\ scope # category)))

\* the factor one policy row puts on month i (MultOne when it does not apply)
PolicyFactor(r, idx, category, i, sy0, sm0) ==
    LET method == IF r.method = NullStr \/ r.method = "" THEN "fixed" ELSE r.method
        base_y == OrElse(r.base_year, sy0)
        base_m == OrElse(r.base_month, sm0)
        step == OrElse(r.step_per_month, 1)
        ym == YmAt(sy0, sm0, i)
    IN  IF ~ PolicyMatches(r, category) THEN MultOne
        ELSE IF method = "fixed" THEN FixedFactor(i, OrElse(r.fixed_pct, 0), step)
        ELSE IF method = "index"
             THEN IF r.index_code = NullStr \/ r.index_code \notin DOMAIN idx THEN MultOne
                  ELSE LET series == idx[r.index_code]
                           base_val == IF <<base_y, base_m>> \in DOMAIN series
                                       THEN series[<<base_y, base_m>>] ELSE 0
                           cur == IF <<ym.y, ym.m>> \in DOMAIN series
                                  THEN series[<<ym.y, ym.m>>] ELSE 0
                       IN  IF base_val = 0 \/ cur = 0 THEN MultOne
                           ELSE (MultOne * cur) \div base_val
        ELSE MultOne

RECURSIVE MultProduct(_)
MultProduct(s) ==
    IF s = <<>> THEN MultOne ELSE (Head(s) * MultProduct(Tail(s))) \div MultOne

\* _build_rf_multiplier: every policy row of the scenario (is_active is selected but
\* never tested) scales the months it matches; rows multiply
BuildRfMultiplier(policies, idx, sid, sy0, sm0, months, category) ==
    [i \in 0..(months - 1) |->
        MultProduct([k \in 1..Len(policies) |->
            IF policies[k].scenario_id = sid
            THEN PolicyFactor(policies[k], idx, category, i, sy0, sm0)
            ELSE MultOne])]

\* rev[i] * rf_mult[i]
Scale(v, m) == (v * m) \div MultOne

\* ---------------------------------------------------------------- Rebates
\* tiers of a rebate: ORDER BY rebate_id, COALESCE(sort_order,0), COALESCE(min_value,0)
\* (the table `tiers` is kept in that order)
TierPct(tiers, rid, v) ==
    LET mine == SelectSeq(tiers, LAMBDA t : t.rebate_id = rid)
        hit == {k \in 1..Len(mine) :
                    /\ Money(OrElse(mine[k].min_value, 0)) <= v
                    /\ (OrElse(mine[k].max_value, NULL) = NULL
                        \/ v < Money(mine[k].max_value))}
    IN  IF hit = {} THEN 0
        ELSE OrElse(mine[CHOOSE k \in hit : \A j \in hit : k <= j].percent, 0)

\* the percent a percent / tier_percent head applies to a month whose basis is v:
\* only tier_percent looks at the tiers, a plain percent head leaves pct = 0.0
HeadPct(h, tiers, v) ==
    IF h.kind = "tier_percent" THEN TierPct(tiers, h.id, v) ELSE 0

HeadKind(h) == IF h.kind = NullStr \/ h.kind = "" THEN "percent" ELSE h.kind
HeadBasis(h) == IF h.basis = NullStr \/ h.basis = "" THEN "revenue" ELSE h.basis

\* what head h takes off the accrual of month i
HeadAccrual(h, rb, accrual_rev, i, sy0, sm0) ==
    IF HeadBasis(h) # "revenue" THEN 0
    ELSE IF HeadKind(h) \in {"percent", "tier_percent"}
         THEN (accrual_rev[i] * HeadPct(h, rb.tiers, accrual_rev[i])) \div 100
    ELSE IF HeadKind(h) = "lump_sum"
         THEN SeqSum([k \in 1..Len(rb.lumps) |->
                IF rb.lumps[k].rebate_id = h.id
                   /\ (rb.lumps[k].y - sy0) * 12 + (rb.lumps[k].m - sm0) = i
                THEN Money(OrElse(rb.lumps[k].amt, 0)) ELSE 0])
    ELSE 0

\* mutant: the rebate amounts are added to the accrual instead of taken off
ApplyRebatesAdded(accrual_rev, sy0, sm0, months, rb) ==
    [net |-> [i \in 0..(months - 1) |->
                accrual_rev[i] + SeqSum([k \in 1..Len(rb.head) |->
                    HeadAccrual(rb.head[k], rb, accrual_rev, i, sy0, sm0)])],
     cash |-> [j \in 0..(months - 1) |-> 0]]

\* _apply_rebates: (accrual_net, cash_out)
ApplyRebates(accrual_rev, sy0, sm0, months, rb) ==
    [net |-> [i \in 0..(months - 1) |->
                accrual_rev[i] - SeqSum([k \in 1..Len(rb.head) |->
                    HeadAccrual(rb.head[k], rb, accrual_rev, i, sy0, sm0)])],
     cash |-> [j \in 0..(months - 1) |->
                0 - SeqSum([k \in 1..Len(rb.head) |->
                    LET i == j - OrElse(rb.head[k].pay_month_lag, 0)
                    IN  IF 0 <= i /\ i < months
                        THEN HeadAccrual(rb.head[k], rb, accrual_rev, i, sy0, sm0)
                        ELSE 0])]]

\* _load_rebates: WHERE scenario_id = :sid on the heads; tiers and lumps unfiltered
LoadRebates(rebates, sid) ==
    [head |-> SelectSeq(rebates.head, LAMBDA h : h.scenario_id = sid),
     tiers |-> rebates.tiers,
     lumps |-> rebates.lumps]

\* ------------------------------------------------------------- TWC (DSO)
\* lag = max(0, round(dso_days / 30)); out[i + lag] += accrual[i]
ApplyDsoToCash(accrual, dso_days) ==
    IF dso_days = NULL \/ dso_days <= 0 THEN accrual
    ELSE LET lag == Max(0, RoundHalfEven(dso_days, 30))
         IN  [j \in DOMAIN accrual |->
                IF j - lag \in DOMAIN accrual THEN accrual[j - lag] ELSE 0]


\* --------------------------------------------------- Services, FX and tax
\* WHERE scenario_id = :sid AND is_active = 1
SvcRowSelected(r, sid) == r.scenario_id = sid /\ r.is_active = 1

SvcOffset(r, sy0, sm0) ==
    Max(0, (IfNull(r.start_year, sy0) - sy0) * 12 + (IfNull(r.start_month, sm0) - sm0))

\* span = min(months - offset, max(1, dur)); range(span) covers offset .. offset+span-1
SvcCovers(r, i, months, sy0, sm0) ==
    LET offset == SvcOffset(r, sy0, sm0)
        span == Min(months - offset, Max(1, IfNull(r.duration_months, months)))
    IN  offset <= i /\ i < offset + span

\* cur_series[idx] = currency or cur_series[idx]: the currency of the last row, in
\* table order, that covers the month and has a currency
RECURSIVE LastCurrency(_, _, _, _, _, _)
LastCurrency(rows, sid, i, months, sy0, sm0) ==
    IF rows = <<>> THEN NullStr
    ELSE LET r == rows[Len(rows)]
         IN  IF SvcRowSelected(r, sid) /\ SvcCovers(r, i, months, sy0, sm0)
                /\ r.currency # NullStr /\ r.currency # ""
             THEN r.currency
             ELSE LastCurrency(SubSeq(rows, 1, Len(rows) - 1), sid, i, months, sy0, sm0)

\* _schedule_services_expense_raw: (sched, cur_series)
ScheduleServicesExpenseRaw(services, sid, months, sy0, sm0) ==
    [sched |-> [i \in 0..(months - 1) |->
                 SeqSum([k \in 1..Len(services) |->
                    IF SvcRowSelected(services[k], sid)
                       /\ SvcCovers(services[k], i, months, sy0, sm0)
                    THEN Money(OrElse(services[k].quantity, 0) * OrElse(services[k].unit_cost, 0))
                    ELSE 0])],
     curs |-> [i \in 0..(months - 1) |-> LastCurrency(services, sid, i, months, sy0, sm0)]]

\* the rows of scenario_fx_rates whose validity window contains (y, m)
FxMatches(r, sid, cur, y, m) ==
    /\ r.scenario_id = sid
    /\ r.currency = cur
    /\ (r.start_year = NULL \/ r.start_year * 100 + r.start_month <= y * 100 + m)
    /\ (r.end_year = NULL \/ r.end_year * 100 + r.end_month >= y * 100 + m)

\* ORDER BY COALESCE(start_year,0) DESC, COALESCE(start_month,0) DESC LIMIT 1
FxRateForMonth(fx, sid, cur, y, m) ==
    LET hit == {k \in 1..Len(fx) : FxMatches(fx[k], sid, cur, y, m)}
        key(k) == IfNull(fx[k].start_year, 0) * 100 + IfNull(fx[k].start_month, 0)
        best == {k \in hit : \A j \in hit : key(k) >= key(j)}
    IN  IF hit = {} THEN NULL
        ELSE fx[CHOOSE k \in best : \A j \in best : k <= j].rate_to_base

\* mutant: a month for which no rate is found is converted to zero
ApplyFxOnServicesZeroed(fx, sid, sy0, sm0, series, currencies) ==
    [i \in DOMAIN series |->
        IF currencies[i] = NullStr \/ series[i] = 0 THEN series[i]
        ELSE LET ym == YmAt(sy0, sm0, i)
                 rate == FxRateForMonth(fx, sid, currencies[i], ym.y, ym.m)
             IN  IF rate = NULL \/ rate = 0 THEN 0 ELSE Scale(series[i], rate)]

\* _apply_fx_on_services: a month with no currency, no amount or no rate is left as is
ApplyFxOnServices(fx, sid, sy0, sm0, series, currencies) ==
    [i \in DOMAIN series |->
        IF currencies[i] = NullStr \/ series[i] = 0 THEN series[i]
        ELSE LET ym == YmAt(sy0, sm0, i)
                 rate == FxRateForMonth(fx, sid, currencies[i], ym.y, ym.m)
             IN  IF rate = NULL \/ rate = 0 THEN series[i] ELSE Scale(series[i], rate)]

\* does a tax rule add its rate to month (y, m)
TaxApplies(r, y, m) ==
    /\ (r.applies_to = NullStr \/ r.applies_to = "" \/ Lower(r.applies_to) = "services")
    /\ ~ (OrElse(r.start_year, 0) # 0 /\ OrElse(r.start_month, 0) # 0
          /\ y * 100 + m < r.start_year * 100 + r.start_month)
    /\ ~ (OrElse(r.end_year, 0) # 0 /\ OrElse(r.end_month, 0) # 0
          /\ y * 100 + m > r.end_year * 100 + r.end_month)
    /\ OrElse(r.is_inclusive, 0) # 1

\* mutant: each rule is applied to the amount the rules before it have produced
RECURSIVE TaxCompound(_, _, _, _)
TaxCompound(rows, y, m, v) ==
    IF rows = <<>> THEN v
    ELSE TaxCompound(Tail(rows), y, m,
                     IF TaxApplies(Head(rows), y, m)
                     THEN v + (v * OrElse(Head(rows).rate_pct, 0)) \div 100 ELSE v)
ApplyTaxCompounding(tax, sid, sy0, sm0, base_series) ==
    [i \in DOMAIN base_series |->
        TaxCompound(SelectSeq(tax, LAMBDA r : r.scenario_id = sid),
                    YmAt(sy0, sm0, i).y, YmAt(sy0, sm0, i).m, base_series[i])]

\* _apply_tax_on_services: base + sum over the matching rules of base * rate_pct / 100
ApplyTaxOnServices(tax, sid, sy0, sm0, base_series) ==
    LET rows == SelectSeq(tax, LAMBDA r : r.scenario_id = sid)
    IN  IF rows = <<>> THEN base_series
        ELSE [i \in DOMAIN base_series |->
                LET ym == YmAt(sy0, sm0, i)
                IN  base_series[i] + SeqSum([k \in 1..Len(rows) |->
                        IF TaxApplies(rows[k], ym.y, ym.m)
                        THEN (base_series[i] * OrElse(rows[k].rate_pct, 0)) \div 100
                        ELSE 0])]

\* ------------------------------------------------------------- run_engine
SheetName(pfx, cat, suffix) == [pfx |-> pfx, cat |-> cat, suffix |-> suffix]
Payload(name, axis, values) == [name |-> name, months |-> axis, values |-> values]
Negate(lst) == [i \in DOMAIN lst |-> 0 - lst[i]]
Zeros(months) == [i \in 0..(months - 1) |-> 0]

\* mutant: the lock is reported but only the caller's option switches escalation on
RiseFallOnOptionOnly(req, locked) == req.options.rise_and_fall = 1

\* options.rise_and_fall or locks.rise_and_fall
RiseFallOn(req, locked) == req.options.rise_and_fall = 1 \/ locked

\* the AN / EM / IE branch of the category loop: seven sheets per category
BoqCategorySheets(in, sc, req, locked, code) ==
    LET months == sc.months
        axis == YmSeries(sc.start_year, sc.start_month, months)
        raw == ScheduleFromBoq(in.boq, sc.id, code, months, sc.start_year, sc.start_month)
        mult == BuildRfMultiplier(in.policies, in.idx, sc.id, sc.start_year, sc.start_month,
                                  months, code)
        rev == IF RiseFallOn(req, locked)
               THEN [i \in 0..(months - 1) |-> Scale(raw.rev[i], mult[i])] ELSE raw.rev
        cogs == IF RiseFallOn(req, locked)
                THEN [i \in 0..(months - 1) |-> Scale(raw.cogs[i], mult[i])] ELSE raw.cogs
        rb == IF req.options.rebates_apply
              THEN ApplyRebates(rev, sc.start_year, sc.start_month, months,
                                LoadRebates(in.rebates, sc.id))
              ELSE [net |-> rev, cash |-> Zeros(months)]
        gp == [i \in 0..(months - 1) |-> rb.net[i] - cogs[i]]
        dso == IF sc.id \in DOMAIN in.twc THEN IfNull(in.twc[sc.id], 0) ELSE 0
        cash_in == ApplyDsoToCash(rb.net, IF req.options.twc_apply THEN dso ELSE 0)
    IN  << Payload(SheetName("c.Sales-", code, ""), axis, R(rb.net)),
           Payload(SheetName("oA.Finance-", code, ".Revenue"), axis, R(rb.net)),
           Payload(SheetName("oA.Finance-", code, ".COGS"), axis, R(cogs)),
           Payload(SheetName("oA.Finance-", code, ".GP"), axis, R(gp)),
           Payload(SheetName("oQ.Finance-", code, ".Revenue"), axis, R(cash_in)),
           Payload(SheetName("oQ.Finance-", code, ".COGS"), axis, R(cogs)),
           Payload(SheetName("oQ.Finance-", code, ".GP"), axis,
                   R([i \in 0..(months - 1) |-> cash_in[i] - cogs[i]])) >>

\* the Services branch: Revenue = 0, COGS = GP = -expense
ServicesSheets(in, sc, req, locked) ==
    LET months == sc.months
        axis == YmSeries(sc.start_year, sc.start_month, months)
        raw == ScheduleServicesExpenseRaw(in.services, sc.id, months,
                                          sc.start_year, sc.start_month)
        e1 == IF req.options.fx_apply
              THEN ApplyFxOnServices(in.fx, sc.id, sc.start_year, sc.start_month,
                                     raw.sched, raw.curs)
              ELSE raw.sched
        mult == BuildRfMultiplier(in.policies, in.idx, sc.id, sc.start_year, sc.start_month,
                                  months, "Services")
        e2 == IF RiseFallOn(req, locked)
              THEN [i \in 0..(months - 1) |-> Scale(e1[i], mult[i])] ELSE e1
        expense == IF req.options.tax_apply
                   THEN ApplyTaxOnServices(in.tax, sc.id, sc.start_year, sc.start_month, e2)
                   ELSE e2
    IN  << Payload(SheetName("c.Sales-", "Services", ""), axis, R(Zeros(months))),
           Payload(SheetName("oA.Finance-", "Services", ".Revenue"), axis, R(Zeros(months))),
           Payload(SheetName("oA.Finance-", "Services", ".COGS"), axis, R(Negate(expense))),
           Payload(SheetName("oA.Finance-", "Services", ".GP"), axis, R(Negate(expense))),
           Payload(SheetName("oQ.Finance-", "Services", ".Revenue"), axis, R(Zeros(months))),
           Payload(SheetName("oQ.Finance-", "Services", ".COGS"), axis, R(Negate(expense))),
           Payload(SheetName("oQ.Finance-", "Services", ".GP"), axis, R(Negate(expense))) >>

\* enabled_codes = [c.code for c in req.categories if c.enabled]
EnabledCodes(req) ==
    LET en == SelectSeq(req.categories, LAMBDA c : c.enabled)
    IN  [k \in 1..Len(en) |-> en[k].code]

RECURSIVE CategoryLoop(_, _, _, _, _)
CategoryLoop(in, sc, req, locked, codes) ==
    IF codes = <<>> THEN <<>>
    ELSE (IF Head(codes) \in BoqCategories
          THEN BoqCategorySheets(in, sc, req, locked, Head(codes))
          ELSE IF Head(codes) = "Services" THEN ServicesSheets(in, sc, req, locked)
          ELSE <<>>)
         \o CategoryLoop(in, sc, req, locked, Tail(codes))

\* mutant: the `if not row: raise HTTPException(404)` check is missing
ScenarioExistsAlways(in, sid) == TRUE

\* _fetch_scenario: the row, or 404 "Scenario not found"
ScenarioExists(in, sid) == sid \in DOMAIN in.scenarios
FetchScenario(in, sid) ==
    IF sid \in DOMAIN in.scenarios
    THEN [id |-> sid, months |-> in.scenarios[sid].months,
          start_year |-> in.scenarios[sid].start_year,
          start_month |-> in.scenarios[sid].start_month]
    ELSE [id |-> sid, months |-> 0, start_year |-> NULL, start_month |-> NULL]

LockNote == "Rise & Fall is locked ON due to existing policy."

\* locks = EngineLocks(rise_and_fall = _has_rise_fall_policy(db, sid, enabled codes))
EngineLock(in, sid, req) == HasRiseFallPolicy(in.policies, sid, EnabledCodes(req))

\* run_engine up to the persist step: the generated sheets, the lock and the note
RunEngineCompute(in, sid, req) ==
    LET sc == FetchScenario(in, sid)
        locked == EngineLock(in, sid, req)
    IN  [generated |-> CategoryLoop(in, sc, req, locked, EnabledCodes(req)),
         locks |-> locked,
         notes |-> IF locked THEN LockNote ELSE NullStr]


\* -------------------------------------------------------------- Fact Store
\* engine_facts_monthly row: run_id, scenario_id, sheet_code, category_code, yyyymm,
\* series, value; the table is a multiset, so in place of the rowid (which no
\* statement reads) a row carries n: it is the n-th row stored under its key.
\* engine_runs row: id, scenario_id, finished (finished_at set).
\* `last` remembers, per key, the value of the most recent write that is still in
\* effect (a DELETE forgets the key); it follows commits and rollbacks with the rows.
EmptyStore == [runs |-> {}, facts |-> {}, last |-> <<>>]

FactKey(run_id, sheet, cat, yyyymm, series) == <<run_id, sheet, cat, yyyymm, series>>
KeyOf(row) == FactKey(row.run_id, row.sheet, row.cat, row.yyyymm, row.series)

SetMax(S) == IF S = {} THEN 0 ELSE CHOOSE x \in S : \A y \in S : x >= y

\* INTEGER PRIMARY KEY: the new rowid is the largest rowid in the table plus one
NextRunId(runs) == SetMax({r.id : r \in runs}) + 1

\* the rows the unique index ux_efm_run_sheet_cat_yyyymm_series sets against a new row:
\* same (run_id, sheet_code, category_code, yyyymm, series); a NULL series never conflicts
Conflicts(facts, key) == {f \in facts : KeyOf(f) = key /\ f.series # NullStr}

Remember(last, key, value) == (key :> value) @@ last
Forget(last, keys) == [k \in (DOMAIN last) \ keys |-> last[k]]

NewRow(store, scenario_id, key, value) ==
    [n |-> SetMax({f.n : f \in {g \in store.facts : KeyOf(g) = key}}) + 1,
     run_id |-> key[1], scenario_id |-> scenario_id,
     sheet |-> key[2], cat |-> key[3], yyyymm |-> key[4], series |-> key[5],
     value |-> value]

\* INSERT ... VALUES (...) with no ON CONFLICT clause; the caller has checked Conflicts
InsertRow(store, scenario_id, key, value) ==
    [store EXCEPT !.facts = @ \cup {NewRow(store, scenario_id, key, value)},
                  !.last = Remember(@, key, value)]

\* mutant: ON CONFLICT ... DO NOTHING -- the row keeps its old value
UpsertRowKeepOld(store, scenario_id, key, value, set_scenario) ==
    IF Conflicts(store.facts, key) = {}
    THEN InsertRow(store, scenario_id, key, value)
    ELSE [store EXCEPT !.last = Remember(@, key, value)]

\* mutant: a plain INSERT with no conflict target -- every write adds a row
UpsertRowAlwaysInsert(store, scenario_id, key, value, set_scenario) ==
    InsertRow(store, scenario_id, key, value)

\* INSERT ... ON CONFLICT(run_id, sheet_code, category_code, yyyymm, series)
\* DO UPDATE SET value = excluded.value [, scenario_id = excluded.scenario_id]
UpsertRow(store, scenario_id, key, value, set_scenario) ==
    IF Conflicts(store.facts, key) = {}
    THEN InsertRow(store, scenario_id, key, value)
    ELSE [store EXCEPT
            !.facts = {IF f \in Conflicts(store.facts, key)
                       THEN [f EXCEPT !.value = value,
                                      !.scenario_id = IF set_scenario THEN scenario_id ELSE @]
                       ELSE f : f \in store.facts},
            !.last = Remember(@, key, value)]

\* DELETE FROM engine_facts_monthly WHERE <gone>
DeleteRows(store, gone) ==
    [store EXCEPT !.facts = @ \ gone,
                  !.last = Forget(@, {KeyOf(f) : f \in gone})]

\* _validate_yyyymm: six digits, month 01..12
ValidYyyymm(yyyymm) ==
    /\ 100000 <= yyyymm /\ yyyymm <= 999999
    /\ 1 <= yyyymm % 100 /\ yyyymm % 100 <= 12

\* persist.upsert_fact (the caller has validated yyyymm)
UpsertFact(store, scenario_id, run_id, sheet, cat, yyyymm, series, value) ==
    UpsertRow(store, scenario_id, FactKey(run_id, sheet, cat, yyyymm, series), value, TRUE)

\* ------------------------------------------------ run_engine: persist step
\* _split_name_to_sheet_and_series: a trailing .Revenue/.COGS/.GP (any case) is the
\* series and is cut off the sheet; any other name has no series
SplitSeries(name) ==
    CASE Upper(name.suffix) = ".REVENUE" -> "revenue"
      [] Upper(name.suffix) = ".COGS" -> "cogs"
      [] Upper(name.suffix) = ".GP" -> "gp"
      [] OTHER -> NullStr
SplitSheet(name) ==
    IF SplitSeries(name) = NullStr THEN name ELSE [name EXCEPT !.suffix = ""]

\* _parse_category_from_name: the token after the first '-' and before the next '.'
ParseCategory(sheet) == sheet.cat

\* the fact writes of one payload, in month order (none when it has no series)
PayloadWrites(s) ==
    IF SplitSeries(s.name) = NullStr THEN <<>>
    ELSE [k \in 1..Cardinality(DOMAIN s.values) |->
            [sheet |-> SplitSheet(s.name),
             cat |-> ParseCategory(SplitSheet(s.name)),
             yyyymm |-> ParseYm(s.months[k - 1]),
             series |-> SplitSeries(s.name),
             value |-> s.values[k - 1]]]

\* the INSERT ... ON CONFLICT statements _persist_results runs, in order
RECURSIVE PersistWrites(_)
PersistWrites(generated) ==
    IF generated = <<>> THEN <<>>
    ELSE PayloadWrites(Head(generated)) \o PersistWrites(Tail(generated))

\* INSERT INTO engine_runs (scenario_id, options_json)
InsertRun(store, scenario_id) ==
    [store EXCEPT !.runs = @ \cup
        {[id |-> NextRunId(store.runs), scenario_id |-> scenario_id, finished |-> FALSE]}]

\* mutant: ORDER BY id ASC -- the oldest run instead of the one just inserted
SelectRunIdOldest(runs) ==
    IF runs = {} THEN 0 ELSE CHOOSE x \in {r.id : r \in runs} : \A r \in runs : x <= r.id

\* SELECT id FROM engine_runs ORDER BY id DESC LIMIT 1
SelectRunId(runs) == SetMax({r.id : r \in runs})

\* one INSERT ... ON CONFLICT DO UPDATE SET value = excluded.value
PersistWrite(store, scenario_id, run_id, w) ==
    UpsertRow(store, scenario_id, FactKey(run_id, w.sheet, w.cat, w.yyyymm, w.series),
              w.value, FALSE)

\* UPDATE engine_runs SET finished_at = CURRENT_TIMESTAMP WHERE id = :rid
StampFinished(store, run_id) ==
    [store EXCEPT !.runs = {IF r.id = run_id THEN [r EXCEPT !.finished = TRUE] ELSE r
                            : r \in store.runs}]

LegacySheets ==
    {SheetName("oA.Finance-", "AN", ".COGS"), SheetName("oA.Finance-", "AN", ".GP"),
     SheetName("oQ.Finance-", "AN", ".COGS"), SheetName("oQ.Finance-", "AN", ".GP")}

\* "Close run" and the clean-up DELETE that ends _persist_results
CloseRun(store, run_id) ==
    LET st == StampFinished(store, run_id)
    IN  DeleteRows(st, {f \in st.facts : f.sheet \in LegacySheets /\ f.run_id = run_id})


\* ------------------------------------- scripts/20251016_engine_finance_an_v2
DateToYyyymm(y, m) == y * 100 + m

YyyymmAdd(yyyymm, n) ==
    LET y == yyyymm \div 100
        m0 == (yyyymm % 100) - 1 + n
    IN  (y + (m0 \div 12)) * 100 + ((m0 % 12) + 1)

\* clamp_months: (first month, number of months) of a line inside the horizon
ClampMonths(start_yyyymm, n, scenario_start, scenario_months) ==
    LET horizon_end == YyyymmAdd(scenario_start, scenario_months)
        first == IF start_yyyymm < scenario_start THEN scenario_start ELSE start_yyyymm
        end0 == YyyymmAdd(start_yyyymm, n)
        end_excl == IF end0 > horizon_end THEN horizon_end ELSE end0
    IN  IF first >= end_excl THEN [start |-> first, total |-> 0]
        ELSE [start |-> first,
              total |-> ((end_excl \div 100) - (first \div 100)) * 12
                        + ((end_excl % 100) - (first % 100))]

\* detect_item_category: the row's explicit category when it has one (the mapping
\* tables are empty here, so a row without one has no category)
DetectItemCategory(r) == IF r.category = NullStr \/ r.category = "" THEN NullStr ELSE r.category

\* spread(): any frequency but "annual" is spread monthly; "annual" reads the
\* undefined name yyyymm and raises NameError
SpreadFreq(r) ==
    LET f == IF r.frequency = NullStr \/ r.frequency = "" THEN "monthly" ELSE r.frequency
    IN  IF f \in {"monthly", "annual"} THEN f ELSE "monthly"

ScriptRowSelected(r, sid) ==
    r.scenario_id = sid /\ r.is_active = 1 /\ DetectItemCategory(r) = "AN" /\ r.quantity # NULL

ScriptClamp(r, sc) ==
    LET scen_start == DateToYyyymm(sc.start_year, sc.start_month)
        st == IF r.start_year = NULL \/ r.start_month = NULL THEN scen_start
              ELSE r.start_year * 100 + r.start_month
        n == IF r.months = NULL \/ r.months <= 0 THEN 1 ELSE r.months
    IN  ClampMonths(st, n, scen_start, sc.months)

\* does line r post `price` (unit_price or unit_cogs) into month yyyymm
ScriptPosts(r, sc, price, yyyymm) ==
    /\ ScriptRowSelected(r, sc.id)
    /\ price # NULL
    /\ ScriptClamp(r, sc).total > 0
    /\ \E i \in 0..(ScriptClamp(r, sc).total - 1) : YyyymmAdd(ScriptClamp(r, sc).start, i) = yyyymm

\* compute() raises before any INSERT when a selected line takes spread()'s annual branch
ScriptComputeRaises(in, sc) ==
    \E k \in 1..Len(in.boq) :
        /\ ScriptRowSelected(in.boq[k], sc.id)
        /\ ScriptClamp(in.boq[k], sc).total > 0
        /\ (in.boq[k].unit_price # NULL \/ in.boq[k].unit_cogs # NULL)
        /\ SpreadFreq(in.boq[k]) = "annual"

ScriptHorizon(sc) ==
    [i \in 1..sc.months |-> YyyymmAdd(DateToYyyymm(sc.start_year, sc.start_month), i - 1)]

\* the revenue / cogs dictionaries: month -> amount, for the months some line posts into
ScriptRevenue(in, sc, yyyymm) ==
    SeqSum([k \in 1..Len(in.boq) |->
        IF ScriptPosts(in.boq[k], sc, in.boq[k].unit_price, yyyymm)
        THEN Money(in.boq[k].quantity * in.boq[k].unit_price) ELSE 0])
ScriptCogs(in, sc, yyyymm) ==
    SeqSum([k \in 1..Len(in.boq) |->
        IF ScriptPosts(in.boq[k], sc, in.boq[k].unit_cogs, yyyymm)
        THEN Money(in.boq[k].quantity * in.boq[k].unit_cogs) ELSE 0])
HasRevenue(in, sc, yyyymm) ==
    \E k \in 1..Len(in.boq) : ScriptPosts(in.boq[k], sc, in.boq[k].unit_price, yyyymm)
HasCogs(in, sc, yyyymm) ==
    \E k \in 1..Len(in.boq) : ScriptPosts(in.boq[k], sc, in.boq[k].unit_cogs, yyyymm)

ScriptInsert(suffix, yyyymm, value) ==
    [sheet |-> SheetName("oA.Finance-", "AN", suffix), cat |-> "AN", yyyymm |-> yyyymm,
     series |-> NullStr, value |-> value]

\* the INSERT statements of compute(), in order: revenue, cogs, gp, each by month
ScriptInserts(in, sc) ==
    LET hz == ScriptHorizon(sc)
        rev == SelectSeq(hz, LAMBDA ym : HasRevenue(in, sc, ym))
        cg == SelectSeq(hz, LAMBDA ym : HasCogs(in, sc, ym))
        un == SelectSeq(hz, LAMBDA ym : HasRevenue(in, sc, ym) \/ HasCogs(in, sc, ym))
    IN  [k \in 1..Len(rev) |-> ScriptInsert(".Revenue", rev[k], ScriptRevenue(in, sc, rev[k]))]
        \o [k \in 1..Len(cg) |-> ScriptInsert(".COGS", cg[k], ScriptCogs(in, sc, cg[k]))]
        \o [k \in 1..Len(un) |->
              ScriptInsert(".GP", un[k], ScriptRevenue(in, sc, un[k]) - ScriptCogs(in, sc, un[k]))]

\* DELETE ... WHERE run_id=? AND category_code='AN' AND sheet_code IN (the three sheets)
ScriptWipe(store, run_id) ==
    DeleteRows(store, {f \in store.facts :
        /\ f.run_id = run_id /\ f.cat = "AN"
        /\ f.sheet \in {SheetName("oA.Finance-", "AN", ".Revenue"),
                        SheetName("oA.Finance-", "AN", ".COGS"),
                        SheetName("oA.Finance-", "AN", ".GP")}})

\* ------------------------------------------------- quarterly aggregation
SeriesNames == {"revenue", "cogs", "gp"}

\* quarter_end_yyyymm of the backfill script
QuarterEndYyyymm(yyyymm) ==
    LET y == yyyymm \div 100
        m == yyyymm % 100
        q == ((m - 1) \div 3) + 1
    IN  y * 100 + (CASE q = 1 -> 3 [] q = 2 -> 6 [] q = 3 -> 9 [] OTHER -> 12)

\* mutant: no bucketing -- every month is its own period
QuarterEndSame(yyyymm) == yyyymm

\* the CASE expression of persist_quarterly_from_monthly
QuarterEndSql(yyyymm) ==
    ((yyyymm \div 100) * 100) +
    (CASE 1 <= yyyymm % 100 /\ yyyymm % 100 <= 3 -> 3
       [] 4 <= yyyymm % 100 /\ yyyymm % 100 <= 6 -> 6
       [] 7 <= yyyymm % 100 /\ yyyymm % 100 <= 9 -> 9
       [] OTHER -> 12)

RECURSIVE SumValues(_)
SumValues(rows) ==
    IF rows = {} THEN 0
    ELSE LET f == CHOOSE x \in rows : TRUE IN f.value + SumValues(rows \ {f})

\* plain INSERTs of a set of (key, value) pairs with distinct keys
RECURSIVE InsertAll(_, _, _)
InsertAll(store, scenario_id, pairs) ==
    IF pairs = {} THEN store
    ELSE LET x == CHOOSE p \in pairs : TRUE
         IN  InsertAll(InsertRow(store, scenario_id, x.key, x.value), scenario_id, pairs \ {x})

RECURSIVE UpsertAll(_, _, _)
UpsertAll(store, scenario_id, pairs) ==
    IF pairs = {} THEN store
    ELSE LET x == CHOOSE p \in pairs : TRUE
         IN  UpsertAll(UpsertRow(store, scenario_id, x.key, x.value, TRUE), scenario_id,
                       pairs \ {x})

\* MAX(run_id) FROM engine_facts_monthly, NULL on an empty table
LatestFactRun(store) == IF store.facts = {} THEN NULL ELSE SetMax({f.run_id : f \in store.facts})

\* the backfill script's main(): cats = the --categories list, {} for discovery;
\* src = the source sheet prefix.  The store is returned unchanged when main() exits early.
QuarterlyBackfill(store, run_id, cats_arg, src) ==
    LET cats == IF cats_arg # {} THEN cats_arg
                ELSE {f.cat : f \in {g \in store.facts : g.run_id = run_id /\ g.sheet.pfx = src}}
        rows == {f \in store.facts :
                    /\ f.run_id = run_id /\ f.sheet.pfx = src
                    /\ f.series \in SeriesNames /\ f.cat \in cats}
        groups == {<<f.cat, QuarterEndYyyymm(f.yyyymm), f.series>> : f \in rows}
        pairs == {[key |-> FactKey(run_id, SheetName("oQ.Finance-", g[1], ""), g[1], g[2], g[3]),
                   value |-> SumValues({f \in rows :
                                <<f.cat, QuarterEndYyyymm(f.yyyymm), f.series>> = g})]
                  : g \in groups}
        wiped == DeleteRows(store, {f \in store.facts :
                    f.run_id = run_id /\ f.sheet.pfx = "oQ.Finance-" /\ f.cat \in cats})
    IN  IF run_id = NULL \/ cats = {} \/ rows = {} THEN store
        ELSE IF \E x \in pairs : Conflicts(wiped.facts, x.key) # {} THEN store
        ELSE InsertAll(wiped, NULL, pairs)

\* mutant: no DELETE of the target rows and ON CONFLICT DO UPDATE SET value =
\* value + excluded.value -- every run adds its sums to the stored quarters
RECURSIVE AccumulateAll(_, _, _)
AccumulateAll(store, scenario_id, pairs) ==
    IF pairs = {} THEN store
    ELSE LET x == CHOOSE p \in pairs : TRUE
             old == SumValues(Conflicts(store.facts, x.key))
         IN  AccumulateAll(UpsertRow(store, scenario_id, x.key, old + x.value, TRUE),
                           scenario_id, pairs \ {x})
PersistQuarterlyAccumulating(store, scenario_id, run_id, src, dst, cats_arg) ==
    LET mine(f) == f.scenario_id = scenario_id /\ f.run_id = run_id
        cats == IF cats_arg # {} THEN cats_arg
                ELSE {f.cat : f \in {g \in store.facts : mine(g) /\ g.sheet.pfx = src}}
        rows == {f \in store.facts :
                    /\ mine(f) /\ f.sheet.pfx = src
                    /\ f.series \in SeriesNames /\ f.cat \in cats}
        groups == {<<f.cat, QuarterEndSql(f.yyyymm), f.series>> : f \in rows}
        pairs == {[key |-> FactKey(run_id, SheetName(dst, g[1], ""), g[1], g[2], g[3]),
                   value |-> SumValues({f \in rows :
                                <<f.cat, QuarterEndSql(f.yyyymm), f.series>> = g})]
                  : g \in groups}
    IN  IF cats = {} THEN store
        ELSE AccumulateAll(store, scenario_id, pairs)

\* persist.persist_quarterly_from_monthly
PersistQuarterlyFromMonthly(store, scenario_id, run_id, src, dst, cats_arg) ==
    LET mine(f) == f.scenario_id = scenario_id /\ f.run_id = run_id
        cats == IF cats_arg # {} THEN cats_arg
                ELSE {f.cat : f \in {g \in store.facts : mine(g) /\ g.sheet.pfx = src}}
        wiped == DeleteRows(store, {f \in store.facts :
                    mine(f) /\ f.sheet.pfx = dst /\ f.cat \in cats})
        rows == {f \in wiped.facts :
                    /\ mine(f) /\ f.sheet.pfx = src
                    /\ f.series \in SeriesNames /\ f.cat \in cats}
        groups == {<<f.cat, QuarterEndSql(f.yyyymm), f.series>> : f \in rows}
        pairs == {[key |-> FactKey(run_id, SheetName(dst, g[1], ""), g[1], g[2], g[3]),
                   value |-> SumValues({f \in rows :
                                <<f.cat, QuarterEndSql(f.yyyymm), f.series>> = g})]
                  : g \in groups}
    IN  IF cats = {} THEN store
        ELSE UpsertAll(wiped, scenario_id, pairs)


\* ------------------------------------------------ library persist helpers
\* each returns [store, ok]: the store the statements executed so far leave on the
\* connection, and whether the call returned (ok) or raised
Done(store) == [store |-> store, ok |-> TRUE]
Raised(store) == [store |-> store, ok |-> FALSE]

\* persist.upsert_fact with its _validate_yyyymm
UpsertFactChecked(store, scenario_id, run_id, sheet, cat, yyyymm, series, value) ==
    IF ~ ValidYyyymm(yyyymm) THEN Raised(store)
    ELSE Done(UpsertFact(store, scenario_id, run_id, sheet, cat, yyyymm, series, value))

\* persist.persist_triplet (compute_gp_if_missing = True)
PersistTriplet(store, scenario_id, run_id, sheet, cat, yyyymm, revenue, cogs, gp) ==
    LET gp_d == IF gp = NULL /\ revenue # NULL /\ cogs # NULL THEN revenue - cogs ELSE gp
        s1 == IF revenue # NULL
              THEN UpsertFact(store, scenario_id, run_id, sheet, cat, yyyymm, "revenue", revenue)
              ELSE store
        s2 == IF cogs # NULL
              THEN UpsertFact(s1, scenario_id, run_id, sheet, cat, yyyymm, "cogs", cogs)
              ELSE s1
        s3 == IF gp_d # NULL
              THEN UpsertFact(s2, scenario_id, run_id, sheet, cat, yyyymm, "gp", gp_d)
              ELSE s2
    IN  IF ~ ValidYyyymm(yyyymm) THEN Raised(store) ELSE Done(s3)

\* a missing or empty sheet_code
NoSheet == SheetName("", "", "")

\* persist.persist_many: rows carry scenario_id, run_id, yyyymm, sheet_code?,
\* category_code?, revenue?, cogs?, gp?
RECURSIVE PersistMany(_, _, _, _)
PersistMany(store, rows, default_sheet, default_category) ==
    IF rows = <<>> THEN Done(store)
    ELSE LET r == Head(rows)
             sheet == IF r.sheet_code # NoSheet THEN r.sheet_code ELSE default_sheet
             cat == IF r.category_code # NullStr THEN r.category_code ELSE default_category
             one == PersistTriplet(store, r.scenario_id, r.run_id, sheet, cat, r.yyyymm,
                                   r.revenue, r.cogs, r.gp)
         IN  IF sheet = NoSheet \/ cat = NullStr THEN Raised(store)
             ELSE IF ~ one.ok THEN one
             ELSE PersistMany(one.store, Tail(rows), default_sheet, default_category)

\* persist.persist_records: rows carry sheet_code, category_code, yyyymm, series, value
RECURSIVE PersistRecords(_, _, _, _)
PersistRecords(store, rows, scenario_id, run_id) ==
    IF rows = <<>> THEN Done(store)
    ELSE LET fr == Head(rows)
             one == UpsertFactChecked(store, scenario_id, run_id, fr.sheet_code,
                                      fr.category_code, fr.yyyymm, fr.series, fr.value)
         IN  IF ~ one.ok THEN one
             ELSE PersistRecords(one.store, Tail(rows), scenario_id, run_id)

\* app.services.engine_persist.upsert_fact, which an_calculator imports
ServicesUpsertFact(store, scenario_id, run_id, sheet, cat, yyyymm, series, value) ==
    UpsertFactChecked(store, scenario_id, run_id, sheet, cat, yyyymm, series, value)

RECURSIVE AnFactsLoop(_, _, _, _)
AnFactsLoop(store, rows, scenario_id, run_id) ==
    IF rows = <<>> THEN Done(store)
    ELSE LET fr == Head(rows)
             one == ServicesUpsertFact(store, scenario_id, run_id, fr.sheet_code,
                                       fr.category_code, fr.yyyymm, fr.series, fr.value)
         IN  IF ~ one.ok THEN one
             ELSE AnFactsLoop(one.store, Tail(rows), scenario_id, run_id)

\* an_calculator.persist_an_facts: all_facts inside `with bind.begin()`, so a raise
\* rolls the whole call back.  Rows that are FactRow dataclass instances cannot be
\* subscripted (fr["sheet_code"] raises TypeError); rows that are mappings can.
PersistAnFacts(store, run_id, scenario_id, facts) ==
    IF facts.rows = <<>> THEN Done(store)
    ELSE IF facts.kind # "dict" THEN Raised(store)
    ELSE LET res == AnFactsLoop(store, facts.rows, scenario_id, run_id)
         IN  IF res.ok THEN res ELSE Raised(store)

\* ===================================================== the run lifecycle
\* Two RunEngine request handlers and one finance script work on one database,
\* next to the quarterly aggregation, the quarterly backfill and library persists.
NoProc == "none"
Engines == {"e1", "e2"}
Scripts == {"s1"}
Procs == Engines \cup Scripts

BoqRow(sid, qty, price, cogs, freq, sy, sm, n) ==
    [scenario_id |-> sid, section |-> "AN", category |-> "AN", is_active |-> 1,
     quantity |-> qty, unit_price |-> price, unit_cogs |-> cogs, frequency |-> freq,
     start_year |-> sy, start_month |-> sm, months |-> n]

NoRebates == [head |-> <<>>, tiers |-> <<>>, lumps |-> <<>>]

\* scenario 1: one month from 2025-02, one monthly AN line 10 x 5 without cost;
\* scenario 2: one month from 2025-03, one annual AN line 2 x 3 with unit cost 1;
\* no scenario 3
LifecycleInputs ==
    [scenarios |-> (1 :> [months |-> 1, start_year |-> 2025, start_month |-> 2]) @@
                   (2 :> [months |-> 1, start_year |-> 2025, start_month |-> 3]),
     boq |-> << BoqRow(1, 10, 5, NULL, "monthly", NULL, NULL, 1),
                BoqRow(2, 2, 3, 1, "annual", NULL, NULL, 1) >>,
     policies |-> <<>>, idx |-> <<>>, rebates |-> NoRebates, twc |-> <<>>,
     services |-> <<>>, fx |-> <<>>, tax |-> <<>>]

ScenarioIds == {1, 2, 3}

\* EngineOptions(): rise_and_fall None, every other switch True
DefaultOptions ==
    [rise_and_fall |-> NULL, fx_apply |-> TRUE, tax_apply |-> TRUE,
     rebates_apply |-> TRUE, twc_apply |-> TRUE]

Request(codes, opts, persist) ==
    [categories |-> [k \in 1..Len(codes) |-> [code |-> codes[k], enabled |-> TRUE]],
     options |-> opts, persist |-> persist]

LifecycleRequests ==
    { Request(<<"AN">>, DefaultOptions, TRUE),
      Request(<<>>, DefaultOptions, TRUE) }

NoRequest == Request(<<>>, DefaultOptions, FALSE)

\* locals of a handler / script: scenario id, request, run_id as the code reads it,
\* own = id of the engine_runs row this invocation inserted, k = fact statements
\* executed, out = how the invocation ended (all but sid and out are dropped then)
IdleLoc ==
    [sid |-> NULL, req |-> NoRequest, rid |-> NULL, own |-> NULL, k |-> 0, out |-> NullStr]
Ended(sid, out) == [IdleLoc EXCEPT !.sid = sid, !.out = out]

\* the last library persist call, remembered while the database is as it left it
NoCall == [n |-> 0, op |-> NullStr, arg |-> <<>>, sid |-> NULL, rid |-> NULL, keep |-> FALSE]
Forgotten(c) == [NoCall EXCEPT !.n = c.n]

CalcIdle == [step |-> "off"]

Init ==
    /\ inp = LifecycleInputs
    /\ db = EmptyStore
    /\ work = EmptyStore
    /\ lock = NoProc
    /\ pc = [p \in Procs |-> "idle"]
    /\ loc = [p \in Procs |-> IdleLoc]
    /\ call = NoCall
    /\ calc = CalcIdle

\* the fact statements of an invocation, in execution order
EngineWrites(p) == PersistWrites(RunEngineCompute(inp, loc[p].sid, loc[p].req).generated)
ScriptWrites(p) ==
    IF ScriptComputeRaises(inp, FetchScenario(inp, loc[p].sid)) THEN <<>>
    ELSE ScriptInserts(inp, FetchScenario(inp, loc[p].sid))

\* --------------------------------------------------- run_engine (handler)
\* POST /scenarios/{id}/run-engine up to the persist step
ReRequest(p) ==
    /\ pc[p] = "idle"
    /\ \E sid \in ScenarioIds, req \in LifecycleRequests :
         IF ~ ScenarioExists(inp, sid)
         THEN /\ pc' = [pc EXCEPT ![p] = "done"]
              /\ loc' = [loc EXCEPT ![p] = Ended(sid, "notfound")]
         ELSE IF req.persist /\ RunEngineCompute(inp, sid, req).generated # <<>>
         THEN /\ pc' = [pc EXCEPT ![p] = "persist"]
              /\ loc' = [loc EXCEPT ![p] = [IdleLoc EXCEPT !.sid = sid, !.req = req]]
         ELSE /\ pc' = [pc EXCEPT ![p] = "done"]
              /\ loc' = [loc EXCEPT ![p] = Ended(sid, "ok")]
    /\ UNCHANGED <<inp, db, work, lock, call, calc>>

\* _persist_results: _ensure_schema and INSERT INTO engine_runs take the write lock
ReBeginWrite(p) ==
    /\ pc[p] = "persist"
    /\ lock = NoProc
    /\ Cardinality(db.runs) < MaxRuns
    /\ lock' = p
    /\ work' = InsertRun(db, loc[p].sid)
    /\ loc' = [loc EXCEPT ![p].own = NextRunId(db.runs)]
    /\ pc' = [pc EXCEPT ![p] = "select"]
    /\ UNCHANGED <<inp, db, call, calc>>

\* another connection holds the write lock: "database is locked" -> HTTP 500
ReBusy(p) ==
    /\ pc[p] = "persist"
    /\ lock # NoProc
    /\ pc' = [pc EXCEPT ![p] = "done"]
    /\ loc' = [loc EXCEPT ![p] = Ended(loc[p].sid, "error")]
    /\ UNCHANGED <<inp, db, work, lock, call, calc>>

\* run_id = SELECT id FROM engine_runs ORDER BY id DESC LIMIT 1
ReSelectRunId(p) ==
    /\ pc[p] = "select"
    /\ loc' = [loc EXCEPT ![p].rid = SelectRunId(work.runs)]
    /\ pc' = [pc EXCEPT ![p] = "write"]
    /\ UNCHANGED <<inp, db, work, lock, call, calc>>

\* the next INSERT ... ON CONFLICT of the persist loop
ReWriteFact(p) ==
    /\ pc[p] = "write"
    /\ loc[p].k < Len(EngineWrites(p))
    /\ work' = PersistWrite(work, loc[p].sid, loc[p].rid, EngineWrites(p)[loc[p].k + 1])
    /\ loc' = [loc EXCEPT ![p].k = @ + 1]
    /\ UNCHANGED <<inp, db, lock, pc, call, calc>>

\* the next statement raises: except -> HTTPException(500); the session is closed
\* without a commit, which rolls the transaction back
ReWriteFail(p) ==
    /\ pc[p] = "write"
    /\ loc[p].k < Len(EngineWrites(p))
    /\ work' = db
    /\ lock' = NoProc
    /\ pc' = [pc EXCEPT ![p] = "done"]
    /\ loc' = [loc EXCEPT ![p] = Ended(loc[p].sid, "error")]
    /\ UNCHANGED <<inp, db, call, calc>>

\* UPDATE engine_runs SET finished_at ... and the legacy-sheet DELETE
ReFinish(p) ==
    /\ pc[p] = "write"
    /\ loc[p].k = Len(EngineWrites(p))
    /\ work' = CloseRun(work, loc[p].rid)
    /\ pc' = [pc EXCEPT ![p] = "close"]
    /\ UNCHANGED <<inp, db, lock, loc, call, calc>>

\* the request ends normally: the session dependency commits and closes
ReClose(p) ==
    /\ pc[p] = "close"
    /\ db' = work
    /\ lock' = NoProc
    /\ pc' = [pc EXCEPT ![p] = "done"]
    /\ loc' = [loc EXCEPT ![p] = Ended(loc[p].sid, "ok")]
    /\ call' = Forgotten(call)
    /\ UNCHANGED <<inp, work, calc>>

\* the response has been sent
ReReturn(p) ==
    /\ pc[p] = "done"
    /\ pc' = [pc EXCEPT ![p] = "idle"]
    /\ loc' = [loc EXCEPT ![p] = IdleLoc]
    /\ UNCHANGED <<inp, db, work, lock, call, calc>>

RunEngine(p) ==
    \/ ReRequest(p) \/ ReBeginWrite(p) \/ ReBusy(p) \/ ReSelectRunId(p)
    \/ ReWriteFact(p) \/ ReWriteFail(p) \/ ReFinish(p) \/ ReClose(p)

\* -------------------------------- 20251016_engine_finance_an_v2.py main()
\* load_scenario: SystemExit when the scenario does not exist
ScStart(p) ==
    /\ pc[p] = "idle"
    /\ \E sid \in ScenarioIds :
         IF ScenarioExists(inp, sid)
         THEN /\ pc' = [pc EXCEPT ![p] = "begin"]
              /\ loc' = [loc EXCEPT ![p] = [IdleLoc EXCEPT !.sid = sid]]
         ELSE /\ pc' = [pc EXCEPT ![p] = "done"]
              /\ loc' = [loc EXCEPT ![p] = Ended(sid, "notfound")]
    /\ UNCHANGED <<inp, db, work, lock, call, calc>>

\* begin_run: INSERT INTO engine_runs, rid = cur.lastrowid, conn.commit()
ScBeginRun(p) ==
    /\ pc[p] = "begin"
    /\ lock = NoProc
    /\ Cardinality(db.runs) < MaxRuns
    /\ db' = InsertRun(db, loc[p].sid)
    /\ work' = db'
    /\ loc' = [loc EXCEPT ![p].rid = NextRunId(db.runs), ![p].own = NextRunId(db.runs)]
    /\ pc' = [pc EXCEPT ![p] = "compute"]
    /\ call' = Forgotten(call)
    /\ UNCHANGED <<inp, lock, calc>>

\* begin_run while another connection writes: sqlite3.OperationalError ends main()
ScBeginBusy(p) ==
    /\ pc[p] = "begin"
    /\ lock # NoProc
    /\ pc' = [pc EXCEPT ![p] = "done"]
    /\ loc' = [loc EXCEPT ![p] = Ended(loc[p].sid, "error")]
    /\ UNCHANGED <<inp, db, work, lock, call, calc>>

\* compute(): the DELETE opens the transaction, then the lines are read and spread;
\* spread() raising leaves the transaction open and control goes to `finally`
ScCompute(p) ==
    /\ pc[p] = "compute"
    /\ lock = NoProc
    /\ lock' = p
    /\ work' = ScriptWipe(db, loc[p].rid)
    /\ IF ScriptComputeRaises(inp, FetchScenario(inp, loc[p].sid))
       THEN /\ pc' = [pc EXCEPT ![p] = "finish"]
            /\ loc' = [loc EXCEPT ![p].out = "error"]
       ELSE /\ pc' = [pc EXCEPT ![p] = "insert"]
            /\ loc' = loc
    /\ UNCHANGED <<inp, db, call, calc>>

\* the DELETE finds the database locked: OperationalError, control goes to `finally`
ScComputeBusy(p) ==
    /\ pc[p] = "compute"
    /\ lock # NoProc
    /\ pc' = [pc EXCEPT ![p] = "finish"]
    /\ loc' = [loc EXCEPT ![p].out = "error"]
    /\ UNCHANGED <<inp, db, work, lock, call, calc>>

\* the next plain INSERT of compute() (no series column: series is NULL)
ScInsert(p) ==
    /\ pc[p] = "insert"
    /\ loc[p].k < Len(ScriptWrites(p))
    /\ LET w == ScriptWrites(p)[loc[p].k + 1]
       IN  work' = InsertRow(work, loc[p].sid,
                             FactKey(loc[p].rid, w.sheet, w.cat, w.yyyymm, w.series), w.value)
    /\ loc' = [loc EXCEPT ![p].k = @ + 1]
    /\ UNCHANGED <<inp, db, lock, pc, call, calc>>

\* the next INSERT raises: the transaction stays open and control goes to `finally`
ScInsertFail(p) ==
    /\ pc[p] = "insert"
    /\ loc[p].k < Len(ScriptWrites(p))
    /\ pc' = [pc EXCEPT ![p] = "finish"]
    /\ loc' = [loc EXCEPT ![p].out = "error"]
    /\ UNCHANGED <<inp, db, work, lock, call, calc>>

\* conn.commit() at the end of compute()
ScCommit(p) ==
    /\ pc[p] = "insert"
    /\ loc[p].k = Len(ScriptWrites(p))
    /\ db' = work
    /\ lock' = NoProc
    /\ pc' = [pc EXCEPT ![p] = "finish"]
    /\ loc' = [loc EXCEPT ![p].out = "ok"]
    /\ call' = Forgotten(call)
    /\ UNCHANGED <<inp, work, calc>>

\* finally: finish_run: UPDATE engine_runs SET finished_at, conn.commit() -- the
\* commit makes whatever the connection still has pending durable
ScFinishRun(p) ==
    /\ pc[p] = "finish"
    /\ lock \in {NoProc, p}
    /\ db' = StampFinished(IF lock = p THEN work ELSE db, loc[p].rid)
    /\ work' = db'
    /\ lock' = NoProc
    /\ pc' = [pc EXCEPT ![p] = "done"]
    /\ loc' = [loc EXCEPT ![p] = Ended(loc[p].sid, loc[p].out)]
    /\ call' = Forgotten(call)
    /\ UNCHANGED <<inp, calc>>

\* finish_run finds the database locked: the exception ends main()
ScFinishBusy(p) ==
    /\ pc[p] = "finish"
    /\ lock \notin {NoProc, p}
    /\ pc' = [pc EXCEPT ![p] = "done"]
    /\ loc' = [loc EXCEPT ![p] = Ended(loc[p].sid, "error")]
    /\ UNCHANGED <<inp, db, work, lock, call, calc>>

FinanceScript(p) ==
    \/ ScStart(p) \/ ScBeginRun(p) \/ ScBeginBusy(p) \/ ScCompute(p) \/ ScComputeBusy(p)
    \/ ScInsert(p) \/ ScInsertFail(p) \/ ScCommit(p) \/ ScFinishRun(p) \/ ScFinishBusy(p)

\* ------------------------------------------ quarterly aggregation (atomic)
SrcChoices == {"c.Sales-", "oA.Finance-"}
RunIds(store) == {r.id : r \in store.runs}

\* 20251021_engine_finance_quarterly_from_monthly.py: --run-id latest or a number,
\* --categories given or discovered, --src sales or oA; one `with conn:` transaction
QuarterlyBackfillRun ==
    /\ lock = NoProc
    /\ \E arg \in {NULL} \cup RunIds(db), cats \in {{}, {"AN"}}, src \in SrcChoices :
         db' = QuarterlyBackfill(db, IF arg = NULL THEN LatestFactRun(db) ELSE arg, cats, src)
    /\ work' = db'
    /\ call' = Forgotten(call)
    /\ UNCHANGED <<inp, lock, pc, loc, calc>>

\* persist.persist_quarterly_from_monthly on a connection the caller commits
PersistQuarterlyRun ==
    /\ lock = NoProc
    /\ \E r \in db.runs, cats \in {{}, {"AN"}}, src \in SrcChoices :
         db' = PersistQuarterlyFromMonthly(db, r.scenario_id, r.id, src, "oQ.Finance-", cats)
    /\ work' = db'
    /\ call' = Forgotten(call)
    /\ UNCHANGED <<inp, lock, pc, loc, calc>>

\* --------------------------------------------- library persists (atomic)
LibSheet == SheetName("oA.Finance-", "AN", "")

FactRec(yyyymm, series, value) ==
    [sheet_code |-> LibSheet, category_code |-> "AN", yyyymm |-> yyyymm,
     series |-> series, value |-> value]

TripletRec(sid, rid, sheet, yyyymm, revenue, cogs, gp) ==
    [scenario_id |-> sid, run_id |-> rid, sheet_code |-> sheet, category_code |-> "AN",
     yyyymm |-> yyyymm, revenue |-> revenue, cogs |-> cogs, gp |-> gp]

\* the fact lists the callers pass: a key twice with different values, and a list
\* whose second row has month 13
FactLists ==
    { << FactRec(202502, "revenue", Money(1)), FactRec(202502, "revenue", Money(2)) >>,
      << FactRec(202503, "gp", Money(1)), FactRec(202513, "gp", Money(1)) >> }

TripletLists(sid, rid) ==
    { << TripletRec(sid, rid, LibSheet, 202502, Money(3), Money(1), NULL) >>,
      << TripletRec(sid, rid, NoSheet, 202503, NULL, NULL, Money(2)),
         TripletRec(sid, rid, LibSheet, 202513, Money(1), NULL, NULL) >> }

LibOps ==
    {"upsert_fact", "persist_triplet", "persist_many", "persist_records", "persist_an_facts"}

\* the arguments a caller may pass to `op` for run rid of scenario sid
LibArgs(op, sid, rid) ==
    CASE op = "upsert_fact" -> {[kind |-> "dict", rows |-> <<Head(l)>>] : l \in FactLists}
      [] op = "persist_triplet" ->
            {[kind |-> "dict", rows |-> <<Head(l)>>] : l \in TripletLists(sid, rid)}
      [] op = "persist_many" -> {[kind |-> "dict", rows |-> l] : l \in TripletLists(sid, rid)}
      [] op = "persist_records" -> {[kind |-> "dict", rows |-> l] : l \in FactLists}
      [] OTHER -> {[kind |-> k, rows |-> l] : k \in {"dict", "dataclass"}, l \in FactLists}

\* the call c made on `store`
LibApply(store, c) ==
    LET r == Head(c.arg.rows)
    IN  CASE c.op = "upsert_fact" ->
                UpsertFactChecked(store, c.sid, c.rid, r.sheet_code, r.category_code,
                                  r.yyyymm, r.series, r.value)
          [] c.op = "persist_triplet" ->
                PersistTriplet(store, c.sid, c.rid, LibSheet, r.category_code, r.yyyymm,
                               r.revenue, r.cogs, r.gp)
          [] c.op = "persist_many" -> PersistMany(store, c.arg.rows, LibSheet, NullStr)
          [] c.op = "persist_records" -> PersistRecords(store, c.arg.rows, c.sid, c.rid)
          [] OTHER -> PersistAnFacts(store, c.rid, c.sid, c.arg)

\* what the call leaves in the database: everything when it returns; when it raises,
\* the statements already executed if the caller's connection commits them (keep),
\* nothing if the caller rolls back
LibOutcome(store, c) ==
    LET res == LibApply(store, c)
    IN  IF res.ok \/ c.keep THEN res.store ELSE store

\* a first call of a library persist for an existing run
LibCall ==
    /\ lock = NoProc
    /\ call.n < MaxLibCalls
    /\ \E r \in db.runs, op \in LibOps, keep \in BOOLEAN :
         \E a \in LibArgs(op, r.scenario_id, r.id) :
            LET c == [n |-> call.n + 1, op |-> op, arg |-> a, sid |-> r.scenario_id,
                      rid |-> r.id, keep |-> keep]
            IN  /\ db' = LibOutcome(db, c)
                /\ call' = c
    /\ work' = db'
    /\ UNCHANGED <<inp, lock, pc, loc, calc>>

\* the same call made again with the same arguments
LibRepeat ==
    /\ lock = NoProc
    /\ call.op # NullStr
    /\ call.n <= MaxLibCalls
    /\ db' = LibOutcome(db, call)
    /\ call' = [call EXCEPT !.n = MaxLibCalls + 1]
    /\ work' = db'
    /\ UNCHANGED <<inp, lock, pc, loc, calc>>

\* ------------------------------------------------------- specifications
\* Spec: the run lifecycle -- two concurrent RunEngine requests and the finance script
Next ==
    \/ \E p \in Engines : RunEngine(p) \/ ReReturn(p)
    \/ \E p \in Scripts : FinanceScript(p) \/ ReReturn(p)

Spec == Init /\ [][Next]_vars

\* SpecStore: the Fact Store under every kind of fact write -- one RunEngine handler
\* at a time, the quarterly aggregation, the quarterly backfill, the library persists
StoreEngines == {"e1"}

StoreEngine(p) ==
    \/ ReRequest(p) \/ ReBeginWrite(p) \/ ReSelectRunId(p) \/ ReWriteFact(p)
    \/ ReWriteFail(p) \/ ReFinish(p) \/ ReClose(p) \/ ReReturn(p)

NextStore ==
    \/ \E p \in StoreEngines : StoreEngine(p)
    \/ QuarterlyBackfillRun
    \/ PersistQuarterlyRun
    \/ LibCall
    \/ LibRepeat

SpecStore == Init /\ [][NextStore]_vars

\* ------------------------------------------ an_calculator.compute_an_facts
\* add_months / ym_range of an_calculator
AddMonths(yyyymm, n) ==
    LET total == ((yyyymm \div 100) * 12 + ((yyyymm % 100) - 1)) + n
    IN  (total \div 12) * 100 + ((total % 12) + 1)
YmRange(start_yyyymm, months) == [k \in 1..months |-> AddMonths(start_yyyymm, k - 1)]

\* WHERE scenario_id = :sid AND (UPPER(category) = 'AN' OR category = 'Ammonium Nitrate')
AnLiteralRows(boq, sid) ==
    SelectSeq(boq, LAMBDA r : r.scenario_id = sid /\ r.category # NullStr
                              /\ (Upper(r.category) = "AN" \/ r.category = "Ammonium Nitrate"))

\* _get_an_base_prices, step 2 (no category map, no scenario products): the first
\* literal AN row gives (sales_price, unit_cogs); none raises ValueError
HasAnLine(boq, sid) == AnLiteralRows(boq, sid) # <<>>
AnSalesPrice(boq, sid) == OrElse(Head(AnLiteralRows(boq, sid)).unit_price, 0)
AnUnitCogs(boq, sid) == OrElse(Head(AnLiteralRows(boq, sid)).unit_cogs, 0)

\* _get_monthly_quantity: SUM(quantity) over the literal AN rows, 1.0 when NULL
AnMonthlyQuantity(boq, sid) ==
    LET rows == AnLiteralRows(boq, sid)
        qs == SelectSeq(rows, LAMBDA r : r.quantity # NULL)
    IN  IF qs = <<>> THEN 1 ELSE SeqSum([k \in 1..Len(qs) |-> qs[k].quantity])

AnFact(sheet, yyyymm, series, value) ==
    [sheet_code |-> sheet, category_code |-> "AN", yyyymm |-> yyyymm, series |-> series,
     value |-> value]

AnSalesSeries == <<"sales_revenue", "freight_revenue", "mgmt_fee_revenue", "total_revenue">>
AnFinanceSeries == <<"revenue", "cogs_ex_tax", "freight_cost", "gp">>

\* the o.base-AN value of a series in one month (no escalation policy: mult = 1.0;
\* freight and management fee unit prices are 0.0)
AnBase(boq, sid, series) ==
    LET rev == Money(AnMonthlyQuantity(boq, sid) * AnSalesPrice(boq, sid))
        cogs == Money(AnMonthlyQuantity(boq, sid) * AnUnitCogs(boq, sid))
    IN  CASE series \in {"revenue", "sales_revenue", "total_revenue"} -> rev
          [] series = "cogs_ex_tax" -> cogs
          [] series = "gp" -> rev - cogs
          [] OTHER -> 0

\* mutant: a quarter is keyed at its first month (01, 04, 07, 10)
AnQuarterKeyFirstMonth(yyyymm) ==
    (yyyymm \div 100) * 100 + (((yyyymm % 100) - 1) \div 3) * 3 + 1

AnQuarterKey(yyyymm) == (yyyymm \div 100) * 100 + ((((yyyymm % 100) - 1) \div 3) + 1) * 3
AnAnnualKey(yyyymm) == (yyyymm \div 100) * 100 + 12

RECURSIVE Flatten(_)
Flatten(ss) == IF ss = <<>> THEN <<>> ELSE Head(ss) \o Flatten(Tail(ss))

\* agg(series_filter, period): period "Q" or "A"; buckets in order of first
\* appearance, each the sum of its months
AnBucket(period, yyyymm) == IF period = "Q" THEN AnQuarterKey(yyyymm) ELSE AnAnnualKey(yyyymm)

AnAggregate(boq, sid, yyyymms, sheet, period) ==
    LET firsts == SelectSeq([k \in 1..Len(yyyymms) |-> k],
                            LAMBDA k : k = 1 \/ AnBucket(period, yyyymms[k])
                                                  # AnBucket(period, yyyymms[k - 1]))
        count(b) == Cardinality({k \in 1..Len(yyyymms) : AnBucket(period, yyyymms[k]) = b})
    IN  Flatten([j \in 1..Len(firsts) |->
            [n \in 1..Len(AnFinanceSeries) |->
                AnFact(sheet, AnBucket(period, yyyymms[firsts[j]]), AnFinanceSeries[n],
                       count(AnBucket(period, yyyymms[firsts[j]]))
                           * AnBase(boq, sid, AnFinanceSeries[n]))]])

\* compute_an_facts: (facts_monthly, facts_quarterly, facts_annual), or raised
ComputeAnFacts(in, sid) ==
    LET sc == FetchScenario(in, sid)
        yyyymms == YmRange(sc.start_year * 100 + sc.start_month, sc.months)
    IN  IF ~ HasAnLine(in.boq, sid)
        THEN [ok |-> FALSE, facts_m |-> <<>>, facts_q |-> <<>>, facts_a |-> <<>>]
        ELSE [ok |-> TRUE,
              facts_m |-> Flatten([k \in 1..Len(yyyymms) |->
                            [n \in 1..Len(AnSalesSeries) |->
                                AnFact("c.Sales-AN", yyyymms[k], AnSalesSeries[n],
                                       AnBase(in.boq, sid, AnSalesSeries[n]))]]),
              facts_q |-> AnAggregate(in.boq, sid, yyyymms, "oQ.Finance-AN", "Q"),
              facts_a |-> AnAggregate(in.boq, sid, yyyymms, "oA.Finance-AN", "A")]

\* ===================================================== one invocation
\* _persist_results as one transaction that the request then commits
\* the fact loop: acc = [store, inserted], inserted counting the statements executed
RECURSIVE WriteAll(_, _, _, _)
WriteAll(acc, scenario_id, run_id, writes) ==
    IF acc.inserted = Len(writes) THEN acc
    ELSE WriteAll([store |-> PersistWrite(acc.store, scenario_id, run_id,
                                          writes[acc.inserted + 1]),
                   inserted |-> acc.inserted + 1],
                  scenario_id, run_id, writes)

PersistResults(store, scenario_id, generated) ==
    LET started == InsertRun(store, scenario_id)
        run_id == SelectRunId(started.runs)
        written == WriteAll([store |-> started, inserted |-> 0], scenario_id, run_id,
                            PersistWrites(generated))
    IN  CloseRun(written.store, run_id)

\* finance_an_v2 main() run to its end without interference: begin_run, compute
\* (DELETE, INSERTs, commit; an exception leaves them out), finish_run
RECURSIVE ScriptInsertAll(_, _, _, _)
ScriptInsertAll(store, scenario_id, run_id, writes) ==
    IF writes = <<>> THEN store
    ELSE ScriptInsertAll(InsertRow(store, scenario_id,
                                   FactKey(run_id, Head(writes).sheet, Head(writes).cat,
                                           Head(writes).yyyymm, Head(writes).series),
                                   Head(writes).value),
                         scenario_id, run_id, Tail(writes))

ScriptMain(store, in, sid) ==
    LET sc == FetchScenario(in, sid)
        begun == InsertRun(store, sid)
        run_id == NextRunId(store.runs)
        wiped == ScriptWipe(begun, run_id)
    IN  StampFinished(IF ScriptComputeRaises(in, sc) THEN wiped
                      ELSE ScriptInsertAll(wiped, sid, run_id, ScriptInserts(in, sc)),
                      run_id)

\* =========================================================== computation
\* One scenario, one invocation on an empty database: RunEngine (with its persist
\* step), then a quarterly aggregation; or compute_an_facts; or the finance script.
CalcScenario == 1

MaxHorizon == 3
MaxDuration == 4

CalcStarts == {[y |-> 2025, m |-> 1], [y |-> 2024, m |-> 11]}
CalcOffsets == {NULL, 0 - 1} \cup (0..MaxHorizon)
CalcDurations == {NULL, 0 - 1} \cup (0..MaxDuration)

CalcInputs(H, st, rows, pols) ==
    [scenarios |-> (CalcScenario :> [months |-> H, start_year |-> st.y, start_month |-> st.m]),
     boq |-> rows, policies |-> pols, idx |-> <<>>, rebates |-> NoRebates, twc |-> <<>>,
     services |-> <<>>, fx |-> <<>>, tax |-> <<>>]

\* one AN line 10 x 5 starting o months after the scenario start (NULL: no start given)
CalcLine(st, cogs, freq, o, D, act) ==
    [BoqRow(CalcScenario, 10, 5, cogs, freq,
            IF o = NULL THEN NULL ELSE YmAt(st.y, st.m, o).y,
            IF o = NULL THEN NULL ELSE YmAt(st.y, st.m, o).m, D)
     EXCEPT !.is_active = act]

PolicyRow(scope, act) ==
    [scenario_id |-> CalcScenario, is_active |-> act, scope |-> scope, method |-> "fixed",
     base_year |-> NULL, base_month |-> NULL, step_per_month |-> 1, fixed_pct |-> 12,
     index_code |-> NullStr]

Categories(codes, off) ==
    [k \in 1..Len(codes) |-> [code |-> codes[k], enabled |-> codes[k] \notin off]]

CalcState(fam, req) ==
    [step |-> "init", fam |-> fam, req |-> req, res |-> <<>>, src |-> NullStr, an |-> <<>>]

\* schedule family: every shape of one line, default request for AN
ScheduleCases ==
    {[in |-> CalcInputs(H, st, <<CalcLine(st, cogs, freq, o, D, act)>>, <<>>),
      calc |-> CalcState("schedule", Request(<<"AN">>, DefaultOptions, TRUE))] :
        H \in 1..MaxHorizon, st \in CalcStarts, cogs \in {NULL, 2},
        freq \in {"monthly", "once", "annual"}, o \in CalcOffsets, D \in CalcDurations,
        act \in {0, 1}}

\* lock family: 3 months from 2025-01, the line 10 x 5 monthly for 3 months without
\* cost, at most one escalation policy (12 % a year, compounding monthly)
LockPolicies ==
    {<<>>} \cup {<<PolicyRow(scope, act)>> :
                    scope \in {"ALL", "AN", "em", "CAPEX", NullStr}, act \in {1, 0, NULL}}
LockRequests ==
    {[categories |-> Categories(codes, off),
      options |-> [DefaultOptions EXCEPT !.rise_and_fall = rf], persist |-> TRUE] :
        codes \in {<<"AN">>, <<"AN", "EM">>, <<>>}, off \in {{}, {"EM"}}, rf \in {NULL, 0, 1}}
LockCases ==
    {[in |-> CalcInputs(3, [y |-> 2025, m |-> 1],
                        <<CalcLine([y |-> 2025, m |-> 1], NULL, "monthly", 0, 3, 1)>>, pols),
      calc |-> CalcState("lock", req)] : pols \in LockPolicies, req \in LockRequests}

InitCalc ==
    /\ \E c \in ScheduleCases \cup LockCases : inp = c.in /\ calc = c.calc
    /\ db = EmptyStore
    /\ work = EmptyStore
    /\ lock = NoProc
    /\ pc = [p \in Procs |-> "idle"]
    /\ loc = [p \in Procs |-> IdleLoc]
    /\ call = NoCall

\* POST /scenarios/1/run-engine, from the request to the committed response
CalcRunEngine ==
    /\ calc.step = "init"
    /\ ScenarioExists(inp, CalcScenario)
    /\ LET res == RunEngineCompute(inp, CalcScenario, calc.req)
       IN  /\ calc' = [calc EXCEPT !.step = "ran", !.res = res]
           /\ db' = IF calc.req.persist /\ res.generated # <<>>
                    THEN PersistResults(db, CalcScenario, res.generated) ELSE db
    /\ work' = db'
    /\ UNCHANGED <<inp, lock, pc, loc, call>>

\* persist_quarterly_from_monthly for the run just persisted, categories discovered
CalcPersistQuarterly ==
    /\ calc.step = "ran"
    /\ db.runs # {}
    /\ \E src \in SrcChoices :
         /\ db' = PersistQuarterlyFromMonthly(db, CalcScenario, SelectRunId(db.runs), src,
                                              "oQ.Finance-", {})
         /\ calc' = [calc EXCEPT !.step = "aggregated", !.src = src]
    /\ work' = db'
    /\ UNCHANGED <<inp, lock, pc, loc, call>>

\* the quarterly backfill script with --run-id latest
CalcBackfill ==
    /\ calc.step = "ran"
    /\ db.runs # {}
    /\ \E src \in SrcChoices :
         /\ db' = QuarterlyBackfill(db, LatestFactRun(db), {}, src)
         /\ calc' = [calc EXCEPT !.step = "backfilled", !.src = src]
    /\ work' = db'
    /\ UNCHANGED <<inp, lock, pc, loc, call>>

\* an_calculator.compute_an_facts(scenario_id = 1)
CalcComputeAn ==
    /\ calc.step = "init"
    /\ calc' = [calc EXCEPT !.step = "an", !.an = ComputeAnFacts(inp, CalcScenario)]
    /\ UNCHANGED <<inp, db, work, lock, pc, loc, call>>

\* 20251016_engine_finance_an_v2.py --scenario 1
CalcScript ==
    /\ calc.step = "init"
    /\ db' = ScriptMain(db, inp, CalcScenario)
    /\ work' = db'
    /\ calc' = [calc EXCEPT !.step = "script"]
    /\ UNCHANGED <<inp, lock, pc, loc, call>>

\* the same aggregation run a second time for the same run and source sheet, the
\* monthly facts untouched in between
CalcPersistQuarterlyAgain ==
    /\ calc.step = "aggregated"
    /\ db' = PersistQuarterlyFromMonthly(db, CalcScenario, SelectRunId(db.runs), calc.src,
                                         "oQ.Finance-", {})
    /\ calc' = [calc EXCEPT !.step = "reaggregated"]
    /\ work' = db'
    /\ UNCHANGED <<inp, lock, pc, loc, call>>

CalcBackfillAgain ==
    /\ calc.step = "backfilled"
    /\ db' = QuarterlyBackfill(db, LatestFactRun(db), {}, calc.src)
    /\ calc' = [calc EXCEPT !.step = "rebackfilled"]
    /\ work' = db'
    /\ UNCHANGED <<inp, lock, pc, loc, call>>

NextCalc ==
    \/ CalcRunEngine
    \/ CalcPersistQuarterly
    \/ CalcBackfill
    \/ CalcPersistQuarterlyAgain
    \/ CalcBackfillAgain
    \/ CalcComputeAn
    \/ CalcScript
SpecCalc == InitCalc /\ [][NextCalc]_vars

\* ------------------------------------------- scenario_summary.get_summary
\* round(x, 2) of one amount
Round2(x) == RoundHalfEven(x, CentUnit) * CentUnit

\* _months_between: the number of months of the window from..to, both ends included
MonthsBetween(y0, m0, y1, m1) == (y1 * 12 + (m1 - 1)) - (y0 * 12 + (m0 - 1)) + 1

\* freq = (r["frequency"] or "once").lower()
SummaryFreq(r) ==
    IF r.frequency = NullStr \/ r.frequency = "" THEN "once" ELSE Lower(r.frequency)

\* the BOQ loop: does row r post its line total into the month (y, m); inactive rows
\* and rows without a start month are skipped, a monthly row covers max(1, span)
\* months from its start, every other frequency its start month only
SummaryLinePosts(r, y, m) ==
    /\ OrElse(r.is_active, 0) = 1
    /\ r.start_year # NULL /\ r.start_month # NULL
    /\ IF SummaryFreq(r) = "monthly"
       THEN \E k \in 0..(Max(1, OrElse(r.months, 1)) - 1) :
               YmAt(r.start_year, r.start_month, k) = [y |-> y, m |-> m]
       ELSE r.start_year = y /\ r.start_month = m

\* rows[key]["revenue_boq"] and rows[key]["cogs_boq"] after the BOQ loop
SummaryRevenueBoq(boq, sid, y, m) ==
    SeqSum([k \in 1..Len(boq) |->
        IF boq[k].scenario_id = sid /\ SummaryLinePosts(boq[k], y, m)
        THEN LineRevTotal(boq[k]) ELSE 0])
SummaryCogsBoq(boq, sid, y, m) ==
    SeqSum([k \in 1..Len(boq) |->
        IF boq[k].scenario_id = sid /\ SummaryLinePosts(boq[k], y, m)
        THEN LineCogsTotal(boq[k]) ELSE 0])

\* boq_line_rev[key][bid]: the id of a BOQ row is its position in the table
SummaryLineRev(boq, sid, bid, y, m) ==
    IF bid \in 1..Len(boq) /\ boq[bid].scenario_id = sid /\ SummaryLinePosts(boq[bid], y, m)
    THEN LineRevTotal(boq[bid]) ELSE 0

\* prod_rev[key][pid]
LinePid(r) == IF "product_id" \in DOMAIN r THEN r.product_id ELSE NULL
SummaryProdRev(boq, sid, pid, y, m) ==
    SeqSum([k \in 1..Len(boq) |->
        IF boq[k].scenario_id = sid /\ LinePid(boq[k]) = pid
           /\ SummaryLinePosts(boq[k], y, m)
        THEN LineRevTotal(boq[k]) ELSE 0])

\* COALESCE(scope,'all'), COALESCE(basis,'revenue'), str(kind), lower-cased
SummaryScope(h) == IF h.scope = NullStr THEN "all" ELSE Lower(h.scope)
SummaryBasisName(h) == IF h.basis = NullStr THEN "revenue" ELSE Lower(h.basis)
SummaryKind(h) == IF h.kind = NullStr THEN "none" ELSE Lower(h.kind)

\* _is_within_validity
IsWithinValidity(h, y, m) ==
    /\ ~ (OrElse(h.valid_from_year, 0) # 0 /\ OrElse(h.valid_from_month, 0) # 0
          /\ y * 12 + (m - 1) < h.valid_from_year * 12 + (h.valid_from_month - 1))
    /\ ~ (OrElse(h.valid_to_year, 0) # 0 /\ OrElse(h.valid_to_month, 0) # 0
          /\ y * 12 + (m - 1) > h.valid_to_year * 12 + (h.valid_to_month - 1))

\* the rebates a month applies: active, inside the validity window, basis revenue
SummaryRebateLive(h, y, m) ==
    /\ IfNull(h.is_active, 1) = 1
    /\ IsWithinValidity(h, y, m)
    /\ SummaryBasisName(h) = "revenue"

\* basis_val by scope; capex_reward_rev and services_rev are still 0.0 at this step
SummaryBasisVal(in, sid, h, y, m) ==
    IF SummaryScope(h) \in {"all", "boq"} THEN SummaryRevenueBoq(in.boq, sid, y, m)
    ELSE IF SummaryScope(h) = "product" /\ h.product_id # NULL
         THEN SummaryProdRev(in.boq, sid, h.product_id, y, m)
    ELSE 0

\* tiers_map[rb.id]: ORDER BY sort_order, id (the table `tiers` is kept in that order)
SummaryTiers(tiers, rid) == SelectSeq(tiers, LAMBDA t : t.rebate_id = rid)

\* _resolve_percent_for_value
ResolvePercentForValue(tiers, value) ==
    LET inside == {k \in 1..Len(tiers) :
                     /\ Money(OrElse(tiers[k].min_value, 0)) <= value
                     /\ (tiers[k].max_value = NULL \/ value < Money(tiers[k].max_value))
                     /\ tiers[k].percent # NULL}
        open == {k \in 1..Len(tiers) :
                     /\ tiers[k].max_value = NULL /\ tiers[k].percent # NULL
                     /\ value >= Money(OrElse(tiers[k].min_value, 0))}
    IN  IF inside # {} THEN tiers[CHOOSE k \in inside : \A j \in inside : k <= j].percent
        ELSE IF open # {} THEN tiers[CHOOSE k \in open : \A j \in open : k >= j].percent
        ELSE 0

\* kind "percent": the percent of the first tier that has one
FirstTierPercent(tiers) ==
    LET has == {k \in 1..Len(tiers) : tiers[k].percent # NULL}
    IN  IF has = {} THEN 0 ELSE tiers[CHOOSE k \in has : \A j \in has : k <= j].percent

\* mutant: no running total -- the percent is resolved for the month's basis alone
SummaryCumBasisMonthOnly(in, sid, h, frm, i) ==
    SummaryBasisVal(in, sid, h, YmAt(frm.y, frm.m, i).y, YmAt(frm.y, frm.m, i).m)

\* ytd_basis[rb.id] after month i of the window: the basis of the months 0..i in
\* which the tier_percent branch ran
SummaryCumBasis(in, sid, h, frm, i) ==
    SeqSum([j \in 1..(i + 1) |->
        LET ym == YmAt(frm.y, frm.m, j - 1)
        IN  IF SummaryRebateLive(h, ym.y, ym.m)
            THEN SummaryBasisVal(in, sid, h, ym.y, ym.m) ELSE 0])

\* the accrual one rebate adds to rebates_contra of window month i
SummaryRebateAccrual(in, sid, h, frm, i, mode) ==
    LET ym == YmAt(frm.y, frm.m, i)
        tiers == SummaryTiers(in.rebates.tiers, h.id)
        basis_val == SummaryBasisVal(in, sid, h, ym.y, ym.m)
        pct == IF SummaryKind(h) = "percent" THEN FirstTierPercent(tiers)
               ELSE IF mode = "ytd"
                    THEN ResolvePercentForValue(tiers, SummaryCumBasis(in, sid, h, frm, i))
               ELSE ResolvePercentForValue(tiers, basis_val)
    IN  IF ~ SummaryRebateLive(h, ym.y, ym.m) THEN 0
        ELSE IF SummaryKind(h) \in {"percent", "tier_percent"}
             THEN 0 - ((basis_val * pct) \div 100)
        ELSE IF SummaryKind(h) = "lump_sum"
             THEN 0 - SeqSum([k \in 1..Len(in.rebates.lumps) |->
                        IF in.rebates.lumps[k].rebate_id = h.id
                           /\ in.rebates.lumps[k].y = ym.y /\ in.rebates.lumps[k].m = ym.m
                        THEN Money(OrElse(in.rebates.lumps[k].amt, 0)) ELSE 0])
        ELSE 0

\* rows[key]["rebates_contra"]
SummaryRebatesContra(in, sid, frm, i, mode) ==
    SeqSum([k \in 1..Len(in.rebates.head) |->
        IF in.rebates.head[k].scenario_id = sid
        THEN SummaryRebateAccrual(in, sid, in.rebates.head[k], frm, i, mode) ELSE 0])

\* straight-line depreciation of one CAPEX row in the month (y, m)
CapexDeprBase(c) == Max(Money(OrElse(c.amount, 0)) - Money(OrElse(c.salvage_value, 0)), 0)
CapexDeprMethod(c) ==
    IF c.depr_method = NullStr \/ c.depr_method = "" THEN "straight_line"
    ELSE Lower(c.depr_method)

\* if dep_method == "straight_line" and sy and sm and life_m > 0 and dep_base > 0:
\* per_month = dep_base / life_m into each of the life_m months from the service start
CapexDepr(c, y, m) ==
    LET life_m == OrElse(c.useful_life_months, 0)
    IN  IF /\ CapexDeprMethod(c) = "straight_line"
           /\ OrElse(c.service_start_year, 0) # 0 /\ OrElse(c.service_start_month, 0) # 0
           /\ life_m > 0 /\ CapexDeprBase(c) > 0
           /\ \E k \in 0..(life_m - 1) :
                 YmAt(c.service_start_year, c.service_start_month, k) = [y |-> y, m |-> m]
        THEN CapexDeprBase(c) \div life_m ELSE 0

\* term: override > scenario.months; 0 stands for "no term"
CapexRewardTerm(c, sc) ==
    IF OrElse(c.term_months_override, 0) > 0 THEN c.term_months_override
    ELSE IF OrElse(sc.months, 0) > 0 THEN sc.months ELSE 0

\* pct: the row's reward_pct, else the scenario default
CapexRewardPct(c, sc) == IfNull(c.reward_pct, OrElse(sc.default_capex_reward_pct, 0))

CapexSpreadKind(c) ==
    IF c.reward_spread_kind = NullStr \/ c.reward_spread_kind = "" THEN "even"
    ELSE Lower(c.reward_spread_kind)

\* mutant: no fallback -- follow_boq without a linked line or with total weight 0, and
\* an unknown spread kind, post no reward
CapexRewardNoFallback(in, sid, c, y, m) ==
    LET sc == in.scenarios[sid]
        term == CapexRewardTerm(c, sc)
        reward_total == (Money(OrElse(c.amount, 0)) * CapexRewardPct(c, sc)) \div 100
        w(k) == LET ym == YmAt(sc.start_year, sc.start_month, k)
                IN  SummaryLineRev(in.boq, sid, c.linked_boq_item_id, ym.y, ym.m)
        total_w == SeqSum([k \in 1..term |-> Max(w(k - 1), 0)])
        at == {k \in 0..(term - 1) :
                  YmAt(sc.start_year, sc.start_month, k) = [y |-> y, m |-> m]}
    IN  IF \/ OrElse(c.reward_enabled, 0) # 1
           \/ CapexRewardPct(c, sc) <= 0 \/ OrElse(c.amount, 0) <= 0 \/ term = 0
           \/ OrElse(sc.start_year, 0) = 0 \/ OrElse(sc.start_month, 0) = 0
           \/ at = {}
        THEN 0
        ELSE IF CapexSpreadKind(c) = "even" THEN reward_total \div term
        ELSE IF CapexSpreadKind(c) = "follow_boq" /\ c.linked_boq_item_id # NULL /\ total_w > 0
             THEN (reward_total * (w(CHOOSE k \in at : TRUE) \div MoneyScale))
                     \div (total_w \div MoneyScale)
        ELSE 0

\* the reward revenue one CAPEX row adds to capex_reward_rev of the month (y, m);
\* reward_total * (w / total_w) with the weights, whole currency units, taken in units
CapexReward(in, sid, c, y, m) ==
    LET sc == in.scenarios[sid]
        term == CapexRewardTerm(c, sc)
        reward_total == (Money(OrElse(c.amount, 0)) * CapexRewardPct(c, sc)) \div 100
        w(k) == LET ym == YmAt(sc.start_year, sc.start_month, k)
                IN  SummaryLineRev(in.boq, sid, c.linked_boq_item_id, ym.y, ym.m)
        total_w == SeqSum([k \in 1..term |-> Max(w(k - 1), 0)])
        at == {k \in 0..(term - 1) :
                  YmAt(sc.start_year, sc.start_month, k) = [y |-> y, m |-> m]}
    IN  IF \/ OrElse(c.reward_enabled, 0) # 1
           \/ CapexRewardPct(c, sc) <= 0 \/ OrElse(c.amount, 0) <= 0 \/ term = 0
           \/ OrElse(sc.start_year, 0) = 0 \/ OrElse(sc.start_month, 0) = 0
           \/ at = {}
        THEN 0
        ELSE IF CapexSpreadKind(c) = "follow_boq" /\ c.linked_boq_item_id # NULL /\ total_w > 0
             THEN (reward_total * (w(CHOOSE k \in at : TRUE) \div MoneyScale))
                     \div (total_w \div MoneyScale)
        ELSE reward_total \div term

\* one item of the response: the row of window month i, each amount rounded to cents
SummaryItem(in, sid, frm, i, mode) ==
    LET ym == YmAt(frm.y, frm.m, i)
        sc == in.scenarios[sid]
        mine == SelectSeq(in.capex, LAMBDA c : c.scenario_id = sid)
        revenue_boq == SummaryRevenueBoq(in.boq, sid, ym.y, ym.m)
        cogs_boq == SummaryCogsBoq(in.boq, sid, ym.y, ym.m)
        rebates_contra == SummaryRebatesContra(in, sid, frm, i, mode)
        capex_depr == SeqSum([k \in 1..Len(mine) |-> CapexDepr(mine[k], ym.y, ym.m)])
        capex_reward_rev ==
            SeqSum([k \in 1..Len(mine) |-> CapexReward(in, sid, mine[k], ym.y, ym.m)])
        gm == (revenue_boq + capex_reward_rev + rebates_contra) - (cogs_boq + capex_depr)
    IN  [ym |-> ParseYm(ym),
         revenue_boq |-> Round2(revenue_boq),
         services_rev |-> 0,
         capex_reward_rev |-> Round2(capex_reward_rev),
         rebates_contra |-> Round2(rebates_contra),
         cogs_boq |-> Round2(cogs_boq),
         services_cogs |-> 0,
         capex_depr |-> Round2(capex_depr),
         gm |-> Round2(gm),
         net |-> Round2(gm)]

\* GET /scenarios/{id}/summary?from=&to=&mode=: 400 "to < from", 404 "Scenario not
\* found", else one item per month of the window
GetSummary(in, sid, frm, to, mode) ==
    IF to.y * 12 + (to.m - 1) < frm.y * 12 + (frm.m - 1)
    THEN [status |-> 400, items |-> <<>>]
    ELSE IF sid \notin DOMAIN in.scenarios THEN [status |-> 404, items |-> <<>>]
    ELSE [status |-> 200,
          items |-> [i \in 0..(MonthsBetween(frm.y, frm.m, to.y, to.m) - 1) |->
                        SummaryItem(in, sid, frm, i, mode)]]

\* ---------------------- scenario_capex._compute_return_schedule_excel_monthly
\* Decimal.quantize(Decimal("0.01"), rounding=ROUND_HALF_UP) of n / d, d > 0
RoundHalfUp(n, d) ==
    IF n >= 0 THEN (2 * n + d) \div (2 * d) ELSE 0 - ((2 * (0 - n) + d) \div (2 * d))

\* the return schedule of one CAPEX row: 400 when the reward is not enabled, the
\* percent is missing or not positive, or the term is not positive; else a constant
\* monthly amount CAPEX * reward_pct / 100 / 12 for `term` months from the service
\* start (the scenario start when unset)
ComputeReturnSchedule(sc, c) ==
    LET reward_pct == IfNull(c.reward_pct, sc.default_capex_reward_pct)
        given == OrElse(c.service_start_year, 0) # 0 /\ OrElse(c.service_start_month, 0) # 0
        start_year == IF given THEN c.service_start_year ELSE sc.start_year
        start_month == IF given THEN c.service_start_month ELSE sc.start_month
        diff == (start_year * 12 + (start_month - 1))
                   - (sc.start_year * 12 + (sc.start_month - 1))
        term == IF OrElse(c.term_months_override, 0) > 0 THEN c.term_months_override
                ELSE sc.months - diff
    IN  IF OrElse(c.reward_enabled, 0) = 0 \/ reward_pct = NULL \/ reward_pct <= 0
           \/ term <= 0
        THEN [status |-> 400]
        ELSE [status |-> 200, start_year |-> start_year, start_month |-> start_month,
              term |-> term,
              monthly_amount |->
                  RoundHalfUp(Money(OrElse(c.amount, 0)) * reward_pct, 100 * 12 * CentUnit)
                      * CentUnit]

\* ============================================================ SpecOverlay
\* One scenario of 3 months from 2025-01 and one invocation that only reads the
\* input tables: RunEngine without persistence, the rebate / FX / tax overlays on
\* their own, or GET summary over a window.
MaxLag == 2
MaxLife == 4
MaxTerm == 4

OverlayInputs(boq, rebates, capex, services, fx, tax, pct) ==
    [scenarios |-> (CalcScenario :> [months |-> 3, start_year |-> 2025, start_month |-> 1,
                                     default_capex_reward_pct |-> pct]),
     boq |-> boq, policies |-> <<>>, idx |-> <<>>, rebates |-> rebates, twc |-> <<>>,
     services |-> services, fx |-> fx, tax |-> tax, capex |-> capex]

OverlayRequest == Request(<<"AN", "Services">>, DefaultOptions, FALSE)

\* the AN line 10 x 100 monthly over the whole horizon: revenue 1000 a month
OverlayLine == BoqRow(CalcScenario, 10, 100, NULL, "monthly", 2025, 1, 3)

RebateHead(id, scope, kind, basis, lag) ==
    [id |-> id, scenario_id |-> CalcScenario, scope |-> scope, kind |-> kind,
     basis |-> basis, product_id |-> NULL,
     valid_from_year |-> NULL, valid_from_month |-> NULL,
     valid_to_year |-> NULL, valid_to_month |-> NULL,
     pay_month_lag |-> lag, is_active |-> 1]
RebateTier(rid, lo, hi, pct) ==
    [rebate_id |-> rid, min_value |-> lo, max_value |-> hi, percent |-> pct]
RebateLump(rid, y, m, amt) == [rebate_id |-> rid, y |-> y, m |-> m, amt |-> amt]

\* tiers of rebate 1: none; a flat 10 %; 5 % below 1500 and 10 % from 1500; a tier
\* without a percent before the flat 10 %; a negative percent
TierChoices ==
    { <<>>,
      <<RebateTier(1, NULL, NULL, 10)>>,
      <<RebateTier(1, NULL, 1500, 5), RebateTier(1, 1500, NULL, 10)>>,
      <<RebateTier(1, NULL, NULL, NULL), RebateTier(1, NULL, NULL, 10)>>,
      <<RebateTier(1, NULL, NULL, 0 - 5)>> }
\* lumps of rebate 1: none; 100 in 2025-02; a negative amount; and, with a second
\* rebate, its lump of 30 in 2025-01
LumpChoices ==
    { <<>>, <<RebateLump(1, 2025, 2, 100)>>, <<RebateLump(1, 2025, 2, 0 - 50)>> }

RebateCases ==
    {[in |-> OverlayInputs(
                <<OverlayLine>>,
                [head |-> <<RebateHead(1, scope, kind, basis, lag)>>
                          \o (IF two THEN <<RebateHead(2, NullStr, "lump_sum", "revenue", 1)>>
                              ELSE <<>>),
                 tiers |-> tiers,
                 lumps |-> lumps \o (IF two THEN <<RebateLump(2, 2025, 1, 30)>> ELSE <<>>)],
                <<>>, <<>>, <<>>, <<>>, 0),
      calc |-> CalcState("rebate", OverlayRequest)] :
        scope \in {NullStr, "services"},
        kind \in {"percent", "tier_percent", "lump_sum", NullStr},
        basis \in {"revenue", NullStr, "volume"},
        lag \in {NULL} \cup (0..MaxLag),
        tiers \in TierChoices, lumps \in LumpChoices, two \in BOOLEAN}

\* services family: one service 1 x 100 a month over the whole horizon
ServiceRow(cur) ==
    [scenario_id |-> CalcScenario, is_active |-> 1, quantity |-> 1, unit_cost |-> 100,
     currency |-> cur, start_year |-> NULL, start_month |-> NULL, duration_months |-> NULL]
FxRow(sid, cur, rate, sy, sm, ey, em) ==
    [scenario_id |-> sid, currency |-> cur, rate_to_base |-> rate,
     start_year |-> sy, start_month |-> sm, end_year |-> ey, end_month |-> em]
TaxRule(rate, incl, applies, sy, sm, ey, em) ==
    [scenario_id |-> CalcScenario, rate_pct |-> rate, is_inclusive |-> incl,
     applies_to |-> applies,
     start_year |-> sy, start_month |-> sm, end_year |-> ey, end_month |-> em]

\* validity windows: none, from 2025-02, until 2025-01, 2025-02 only
Windows ==
    { <<NULL, NULL, NULL, NULL>>, <<2025, 2, NULL, NULL>>,
      <<NULL, NULL, 2025, 1>>, <<2025, 2, 2025, 2>> }

FxChoices ==
    {<<>>}
    \cup {<<FxRow(sid, "USD", rate, w[1], w[2], w[3], w[4])>> :
            sid \in {CalcScenario, CalcScenario + 1}, rate \in {2 * MultOne, 0, NULL},
            w \in Windows}
    \cup {<<FxRow(CalcScenario, "USD", 2 * MultOne, NULL, NULL, NULL, NULL),
            FxRow(CalcScenario, "USD", 3 * MultOne, 2025, 2, NULL, NULL)>>}

TaxRules ==
    {TaxRule(rate, incl, applies, w[1], w[2], w[3], w[4]) :
        rate \in {10, 20}, incl \in {0, 1, NULL},
        applies \in {NullStr, "Services", "boq"}, w \in Windows \ {<<2025, 2, 2025, 2>>}}
TaxChoices ==
    {<<>>} \cup {<<r>> : r \in TaxRules}
    \cup {<<TaxRule(10, 0, NullStr, NULL, NULL, NULL, NULL), r>> : r \in TaxRules}

ServicesCases ==
    {[in |-> OverlayInputs(<<>>, NoRebates, <<>>, <<ServiceRow(cur)>>, c.fx, c.tax, 0),
      calc |-> CalcState("services", OverlayRequest)] :
        cur \in {"USD", "EUR", NullStr},
        c \in {[fx |-> fx, tax |-> tax] :
                  fx \in FxChoices,
                  tax \in {<<>>, <<TaxRule(10, 0, NullStr, NULL, NULL, NULL, NULL)>>}}
              \cup {[fx |-> <<>>, tax |-> tax] : tax \in TaxChoices}}

\* capex families: one asset of 1200
CapexRow(salvage, life, method, sy, sm, enabled, pct, spread, linked, term) ==
    [scenario_id |-> CalcScenario, amount |-> 1200, salvage_value |-> salvage,
     useful_life_months |-> life, depr_method |-> method,
     service_start_year |-> sy, service_start_month |-> sm,
     reward_enabled |-> enabled, reward_pct |-> pct, reward_spread_kind |-> spread,
     linked_boq_item_id |-> linked, term_months_override |-> term]

\* service start: unset, before, at and after the scenario start
ServiceStarts == { <<NULL, NULL>>, <<2024, 12>>, <<2025, 1>>, <<2025, 2>> }

DeprCases ==
    {[in |-> OverlayInputs(<<>>, NoRebates,
                <<CapexRow(salvage, life, method, s[1], s[2], 0, NULL, NullStr, NULL, NULL)>>,
                <<>>, <<>>, <<>>, 0),
      calc |-> CalcState("depr", OverlayRequest)] :
        salvage \in {NULL, 200, 1200, 1500}, life \in {NULL} \cup (0..MaxLife),
        method \in {NullStr, "straight_line", "declining_balance"}, s \in ServiceStarts}

RewardCases ==
    {[in |-> OverlayInputs(<<[OverlayLine EXCEPT !.start_month = 2, !.months = 1]>>, NoRebates,
                <<[CapexRow(NULL, NULL, NullStr, s[1], s[2], enabled, pct, spread, linked, term)
                   EXCEPT !.amount = amount]>>,
                <<>>, <<>>, <<>>, dflt),
      calc |-> CalcState("reward", OverlayRequest)] :
        amount \in {1200, 0}, enabled \in {1, 0, NULL}, pct \in {NULL, 10, 0},
        dflt \in {0, 20}, spread \in {"even", NullStr, "follow_boq", "front_loaded"},
        linked \in {NULL, 1, 2},
        term \in {NULL} \cup (0..MaxTerm), s \in {<<NULL, NULL>>, <<2025, 2>>}}

\* mixed-currency family: two service agreements of 50 a month, the second one from
\* the scenario start or from 2025-02, with a rate of 2 for USD and of 3 for EUR
ServiceRowFrom(cur, sy, sm) ==
    [ServiceRow(cur) EXCEPT !.unit_cost = 50, !.start_year = sy, !.start_month = sm]
MixedFx ==
    <<FxRow(CalcScenario, "USD", 2 * MultOne, NULL, NULL, NULL, NULL),
      FxRow(CalcScenario, "EUR", 3 * MultOne, NULL, NULL, NULL, NULL)>>
MixedServicesCases ==
    {[in |-> OverlayInputs(<<>>, NoRebates, <<>>,
                <<ServiceRowFrom(cur1, NULL, NULL), ServiceRowFrom(cur2, s[1], s[2])>>,
                MixedFx, <<>>, 0),
      calc |-> CalcState("services_mixed", OverlayRequest)] :
        cur1 \in {"USD", "EUR", NullStr}, cur2 \in {"USD", "EUR", NullStr},
        s \in { <<NULL, NULL>>, <<2025, 2>> }}

\* rebate-on-reward family: the line of 1000 a month, one percent / tier_percent rebate
\* of scope all or boq, and a reward-enabled asset of 1200 at 10 % spread evenly over
\* the three months (40 a month)
RebateRewardCases ==
    {[in |-> OverlayInputs(
                <<OverlayLine>>,
                [head |-> <<RebateHead(1, scope, kind, "revenue", NULL)>>,
                 tiers |-> tiers, lumps |-> <<>>],
                <<CapexRow(NULL, NULL, NullStr, NULL, NULL, enabled, 10, "even", NULL, NULL)>>,
                <<>>, <<>>, <<>>, 0),
      calc |-> CalcState("rebate_reward", OverlayRequest)] :
        scope \in {NullStr, "all", "boq"}, kind \in {"percent", "tier_percent"},
        enabled \in {1, 0},
        tiers \in {<<RebateTier(1, NULL, NULL, 10)>>,
                   <<RebateTier(1, NULL, 1020, 5), RebateTier(1, 1020, NULL, 10)>>}}

InitOverlay ==
    /\ \E c \in RebateCases \cup ServicesCases \cup DeprCases \cup RewardCases
                 \cup RebateRewardCases \cup MixedServicesCases :
          inp = c.in /\ calc = c.calc
    /\ db = EmptyStore
    /\ work = EmptyStore
    /\ lock = NoProc
    /\ pc = [p \in Procs |-> "idle"]
    /\ loc = [p \in Procs |-> IdleLoc]
    /\ call = NoCall

\* POST /scenarios/1/run-engine with persist = false: the sheets are only returned
OvRunEngine ==
    /\ calc.step = "init"
    /\ ScenarioExists(inp, CalcScenario)
    /\ calc' = [calc EXCEPT !.step = "ran",
                            !.res = RunEngineCompute(inp, CalcScenario, calc.req)]
    /\ UNCHANGED <<inp, db, work, lock, pc, loc, call>>

\* _apply_rebates on the AN revenue schedule: (accrual_net, cash_out)
OvApplyRebates ==
    /\ calc.step = "init"
    /\ LET sc == FetchScenario(inp, CalcScenario)
           rev == ScheduleFromBoq(inp.boq, sc.id, "AN", sc.months,
                                  sc.start_year, sc.start_month).rev
       IN  calc' = [calc EXCEPT
                      !.step = "rebated",
                      !.res = [rev |-> rev,
                               rb |-> ApplyRebates(rev, sc.start_year, sc.start_month,
                                                   sc.months, LoadRebates(inp.rebates, sc.id))]]
    /\ UNCHANGED <<inp, db, work, lock, pc, loc, call>>

\* _schedule_services_expense_raw, then _apply_fx_on_services, then
\* _apply_tax_on_services on the converted series
OvServices ==
    /\ calc.step = "init"
    /\ LET sc == FetchScenario(inp, CalcScenario)
           raw == ScheduleServicesExpenseRaw(inp.services, sc.id, sc.months,
                                             sc.start_year, sc.start_month)
           conv == ApplyFxOnServices(inp.fx, sc.id, sc.start_year, sc.start_month,
                                     raw.sched, raw.curs)
       IN  calc' = [calc EXCEPT
                      !.step = "services",
                      !.res = [raw |-> raw, fx |-> conv,
                               tax |-> ApplyTaxOnServices(inp.tax, sc.id, sc.start_year,
                                                          sc.start_month, conv)]]
    /\ UNCHANGED <<inp, db, work, lock, pc, loc, call>>

\* the windows asked of the summary: the horizon, six months, one month, and to < from
MonthOf(y, m) == [y |-> y, m |-> m]
SummaryWindows ==
    { [frm |-> MonthOf(2025, 1), to |-> MonthOf(2025, 3)],
      [frm |-> MonthOf(2025, 1), to |-> MonthOf(2025, 6)],
      [frm |-> MonthOf(2025, 2), to |-> MonthOf(2025, 2)],
      [frm |-> MonthOf(2025, 3), to |-> MonthOf(2025, 1)] }

\* GET /scenarios/1/summary?from=..&to=..&mode=..
OvSummary ==
    /\ calc.step = "init"
    /\ \E w \in SummaryWindows, mode \in {"monthly", "ytd"} :
         calc' = [calc EXCEPT
                    !.step = "summary",
                    !.res = [frm |-> w.frm, to |-> w.to, mode |-> mode,
                             out |-> GetSummary(inp, CalcScenario, w.frm, w.to, mode)]]
    /\ UNCHANGED <<inp, db, work, lock, pc, loc, call>>

\* the return schedule the generate-from-CAPEX handlers compute for the first CAPEX row
OvReturnSchedule ==
    /\ calc.step = "init"
    /\ inp.capex # <<>>
    /\ calc' = [calc EXCEPT
                   !.step = "schedule",
                   !.res = ComputeReturnSchedule(inp.scenarios[CalcScenario], inp.capex[1])]
    /\ UNCHANGED <<inp, db, work, lock, pc, loc, call>>

NextOverlay ==
    \/ OvRunEngine
    \/ OvApplyRebates
    \/ OvServices
    \/ OvSummary
    \/ OvReturnSchedule
SpecOverlay == InitOverlay /\ [][NextOverlay]_vars

\* ========================================================== SpecEscalation
\* The two multiplier builders on their own: _build_rf_multiplier of the run engine
\* and _compute_rnf_multipliers of the AN calculator.  Index values are whole index
\* units (1.0 = 1), multipliers are in units of 1 / MultOne.

\* ------------------------------- an_calculator._compute_rnf_multipliers
\* SELECT value FROM index_points WHERE series_id = :sid AND (year < :y OR (year = :y
\* AND month <= :m)) ORDER BY year DESC, month DESC LIMIT 1; NULL when there is no row
IndexPointOnOrBefore(points, series_id, yyyymm) ==
    LET y == yyyymm \div 100
        m == yyyymm % 100
        ok == {p \in points : /\ p.series_id = series_id
                              /\ (p.year < y \/ (p.year = y /\ p.month <= m))}
    IN  IF ok = {} THEN NULL
        ELSE (CHOOSE p \in ok :
                \A q \in ok : q.year * 12 + q.month <= p.year * 12 + p.month).value

\* the base of one component: its override, else the point at the contract start,
\* else 1.0 (also when that point is 0)
RnfBase(points, c, start_yyyymm) ==
    LET base == IF c.base_index_value # NULL THEN c.base_index_value
                ELSE IndexPointOnOrBefore(points, c.index_series_id, start_yyyymm)
    IN  IF base = NULL \/ base = 0 THEN 1 ELSE base

\* (cur / base_val) * (weight_pct / 100.0) with cur = the point on or before the month
\* `or base_val`
RnfTerm(points, c, start_yyyymm, yyyymm) ==
    LET base_val == RnfBase(points, c, start_yyyymm)
        pt == IndexPointOnOrBefore(points, c.index_series_id, yyyymm)
        cur == IF pt = NULL \/ pt = 0 THEN base_val ELSE pt
    IN  (((MultOne * cur) \div base_val) * c.weight_pct) \div 100

\* basket_value(yyyymm) over the components of the policy, ORDER BY id
BasketValue(points, comps, start_yyyymm, yyyymm) ==
    SeqSum([k \in 1..Len(comps) |-> RnfTerm(points, comps[k], start_yyyymm, yyyymm)])

\* frequency.lower().startswith("annual")
IsAnnual(frequency) == frequency \in {"annual", "Annual", "annually"}

ComputeRnfMultipliers(components, points, policy_id, start_yyyymm, months, frequency) ==
    LET comps == SelectSeq(components, LAMBDA c : c.policy_id = policy_id)
        months_list == YmRange(start_yyyymm, months)
    IN  IF policy_id = NULL \/ policy_id = 0 \/ comps = <<>>
        THEN [i \in 0..(months - 1) |-> MultOne]
        ELSE IF IsAnnual(frequency)
        THEN [i \in 0..(months - 1) |->
                BasketValue(points, comps, start_yyyymm, months_list[((i \div 12) * 12) + 1])]
        ELSE [i \in 0..(months - 1) |->
                BasketValue(points, comps, start_yyyymm, months_list[i + 1])]

\* ------------------------------------------------------------- the cases
\* the longest horizon a fixed policy is built for: month index 12 exists
EscMonths == 13

EscStart == [y |-> 2025, m |-> 1]

EscInputs(H, pols, idx, comps, points, pid, freq) ==
    [CalcInputs(H, EscStart, <<>>, pols) EXCEPT !.idx = idx]
    @@ [components |-> comps, points |-> points, policy_id |-> pid, frequency |-> freq]

\* fixed family: one fixed policy of scope ALL, annual percent p, step s
FixedPolicy(method, p, s) ==
    [PolicyRow("ALL", 1) EXCEPT !.method = method, !.fixed_pct = p, !.step_per_month = s]
FixedCases ==
    {[in |-> EscInputs(H, <<FixedPolicy(method, p, s)>>, <<>>, <<>>, {}, NULL, "annual"),
      calc |-> CalcState("fixed", Request(<<"AN">>, DefaultOptions, FALSE))] :
        H \in {1, EscMonths}, method \in {"fixed", NullStr}, p \in {NULL, 0, 6, 12, 24},
        s \in {NULL, 1, 2, 3, 12}}

\* index family (run engine): one index policy of scope ALL on series CPI, three months
IndexPolicy(code, by, bm) ==
    [PolicyRow("ALL", 1) EXCEPT !.method = "index", !.index_code = code,
                                !.base_year = by, !.base_month = bm, !.fixed_pct = NULL]
IndexSeriesChoices ==
    { (<<2025, 1>> :> 100) @@ (<<2025, 2>> :> 110) @@ (<<2025, 3>> :> 121),
      (<<2024, 12>> :> 90) @@ (<<2025, 1>> :> 100) @@ (<<2025, 3>> :> 80),
      (<<2025, 2>> :> 110) @@ (<<2025, 3>> :> 121),
      (<<2025, 1>> :> 0) @@ (<<2025, 2>> :> 110),
      <<>> }
IndexCases ==
    {[in |-> EscInputs(3, <<IndexPolicy(code, b[1], b[2])>>, ("CPI" :> series), <<>>, {},
                       NULL, "annual"),
      calc |-> CalcState("index", Request(<<"AN">>, DefaultOptions, FALSE))] :
        code \in {"CPI", "PPI", NullStr}, series \in IndexSeriesChoices,
        b \in {<<NULL, NULL>>, <<2025, 2>>, <<2025, 3>>, <<2024, 12>>}}

\* basket family (AN calculator): policy 1 with one or two weighted components
Component(series_id, weight, base) ==
    [policy_id |-> 1, index_series_id |-> series_id, weight_pct |-> weight,
     base_index_value |-> base]
ComponentChoices ==
    { <<Component(1, 100, base)>> : base \in {NULL, 50} } \cup
    { <<Component(1, w[1], base), Component(2, w[2], NULL)>> :
        w \in {<<45, 55>>, <<60, 40>>, <<60, 30>>, <<70, 50>>}, base \in {NULL, 50} } \cup
    { <<>> }
IndexPoint(series_id, y, m, v) == [series_id |-> series_id, year |-> y, month |-> m, value |-> v]
PointChoices ==
    { {IndexPoint(1, 2025, 1, 100), IndexPoint(1, 2025, 2, 110),
       IndexPoint(2, 2025, 1, 200), IndexPoint(2, 2025, 3, 220)},
      {IndexPoint(1, 2024, 11, 90), IndexPoint(2, 2025, 2, 210)},
      {IndexPoint(1, 2025, 1, 0), IndexPoint(1, 2025, 2, 110), IndexPoint(2, 2025, 1, 200)},
      {} }
BasketCases ==
    {[in |-> EscInputs(H, <<>>, <<>>, comps, points, pid, freq),
      calc |-> CalcState("basket", Request(<<"AN">>, DefaultOptions, FALSE))] :
        H \in {3, EscMonths}, comps \in ComponentChoices, points \in PointChoices,
        pid \in {NULL, 1}, freq \in {"annual", "monthly"}}

InitEscalation ==
    /\ \E c \in FixedCases \cup IndexCases \cup BasketCases : inp = c.in /\ calc = c.calc
    /\ db = EmptyStore
    /\ work = EmptyStore
    /\ lock = NoProc
    /\ pc = [p \in Procs |-> "idle"]
    /\ loc = [p \in Procs |-> IdleLoc]
    /\ call = NoCall

\* _build_rf_multiplier(db, scenario 1, start, months, AN)
EscBuildRf ==
    /\ calc.step = "init"
    /\ calc.fam \in {"fixed", "index"}
    /\ LET sc == FetchScenario(inp, CalcScenario)
       IN  calc' = [calc EXCEPT
                      !.step = "built",
                      !.res = BuildRfMultiplier(inp.policies, inp.idx, sc.id, sc.start_year,
                                                sc.start_month, sc.months, "AN")]
    /\ UNCHANGED <<inp, db, work, lock, pc, loc, call>>

\* _compute_rnf_multipliers(db, policy_id, start_yyyymm, months, frequency)
EscComputeRnf ==
    /\ calc.step = "init"
    /\ calc.fam = "basket"
    /\ LET sc == FetchScenario(inp, CalcScenario)
       IN  calc' = [calc EXCEPT
                      !.step = "rnf",
                      !.res = ComputeRnfMultipliers(inp.components, inp.points, inp.policy_id,
                                                    sc.start_year * 100 + sc.start_month,
                                                    sc.months, inp.frequency)]
    /\ UNCHANGED <<inp, db, work, lock, pc, loc, call>>

NextEscalation ==
    \/ EscBuildRf
    \/ EscComputeRnf
SpecEscalation == InitEscalation /\ [][NextEscalation]_vars

\* =============================================================== SpecCapex
\* The CAPEX handlers of scenario_capex.py on one scenario: create, update and the
\* two generators.  The tables are inp.capex, inp.services and inp.boq; a row's id is
\* its position in its table (no handler here deletes a row).

\* the operations made on the tables in one behaviour
MaxCapexOps == 4

\* _materialize_amount: per_unit_cost x quantity when both are given, else amount
MaterializeAmount(payload) ==
    IF payload.per_unit_cost # NULL /\ payload.quantity # NULL
    THEN payload.per_unit_cost * payload.quantity ELSE payload.amount

\* _apply_payload: every column of the row is taken from the payload, the two links
\* included
ApplyPayload(row, payload) ==
    [row EXCEPT !.amount = MaterializeAmount(payload),
                !.service_start_year = payload.service_start_year,
                !.service_start_month = payload.service_start_month,
                !.reward_enabled = payload.reward_enabled,
                !.reward_pct = payload.reward_pct,
                !.reward_spread_kind = payload.reward_spread_kind,
                !.linked_boq_item_id = payload.linked_boq_item_id,
                !.term_months_override = payload.term_months_override,
                !.linked_service_id = payload.linked_service_id]

\* ScenarioCapex(scenario_id = sid) before _apply_payload
BlankCapex(sid) ==
    [CapexRow(NULL, NULL, "straight_line", NULL, NULL, 0, NULL, "even", NULL, NULL)
        EXCEPT !.scenario_id = sid, !.amount = 0]
    @@ [linked_service_id |-> NULL]

\* the CapexIn bodies a client sends: reward on or off, percent given or not, each link
\* absent (the schema's default) or echoed as 1
CapexPayloads ==
    {[amount |-> 1200, per_unit_cost |-> puc, quantity |-> IF puc = NULL THEN NULL ELSE 6,
      service_start_year |-> NULL, service_start_month |-> NULL,
      reward_enabled |-> en, reward_pct |-> pct, reward_spread_kind |-> "even",
      linked_boq_item_id |-> lb, term_months_override |-> NULL, linked_service_id |-> ls] :
        puc \in {NULL, 100}, en \in {1, 0}, pct \in {NULL, 10}, lb \in {NULL, 1},
        ls \in {NULL, 1}}

\* POST /scenarios/1/capex
CreateCapex(in, sid, payload) ==
    IF sid \notin DOMAIN in.scenarios THEN [in |-> in, res |-> [status |-> 404]]
    ELSE [in |-> [in EXCEPT !.capex = Append(@, ApplyPayload(BlankCapex(sid), payload))],
          res |-> [status |-> 201, id |-> Len(in.capex) + 1]]

\* db.get(ScenarioCapex, item_id) of the scenario, or 404
CapexFound(in, sid, item_id) ==
    /\ sid \in DOMAIN in.scenarios
    /\ item_id \in 1..Len(in.capex)
    /\ in.capex[item_id].scenario_id = sid

\* PUT /scenarios/1/capex/{item_id}
UpdateCapex(in, sid, item_id, payload) ==
    IF ~ CapexFound(in, sid, item_id) THEN [in |-> in, res |-> [status |-> 404]]
    ELSE [in |-> [in EXCEPT !.capex[item_id] = ApplyPayload(@, payload)],
          res |-> [status |-> 200, id |-> item_id]]

\* the ScenarioService the generator adds, with its ScenarioServiceMonth rows
GeneratedService(sid, item_id, sched) ==
    [scenario_id |-> sid, category |-> "capex_return", from_capex |-> item_id,
     quantity |-> 1, unit_cost |-> sched.monthly_amount, currency |-> "TRY",
     start_year |-> sched.start_year, start_month |-> sched.start_month,
     duration_months |-> sched.term, is_active |-> 1,
     month_rows |-> [i \in 1..sched.term |->
                        [ym |-> YmAt(sched.start_year, sched.start_month, i - 1),
                         expense_amount |-> sched.monthly_amount]]]

\* POST /scenarios/1/capex/{item_id}/generate/service
GenerateServiceFromCapex(in, sid, item_id) ==
    IF ~ CapexFound(in, sid, item_id) THEN [in |-> in, res |-> [status |-> 404]]
    ELSE LET row == in.capex[item_id]
             sched == ComputeReturnSchedule(in.scenarios[sid], row)
             new_id == Len(in.services) + 1
         IN  IF OrElse(row.linked_service_id, 0) # 0
             THEN [in |-> in,
                   res |-> [status |-> 201, linked_service_id |-> row.linked_service_id,
                            months |-> NULL]]
             ELSE IF sched.status # 200 THEN [in |-> in, res |-> [status |-> sched.status]]
             ELSE [in |-> [in EXCEPT
                             !.services = Append(@, GeneratedService(sid, item_id, sched)),
                             !.capex[item_id].linked_service_id = new_id],
                   res |-> [status |-> 201, linked_service_id |-> new_id,
                            months |-> sched.term]]

\* the ScenarioBOQItem the generator adds
GeneratedBoqItem(sid, item_id, sched) ==
    [scenario_id |-> sid, section |-> "Services", category |-> NullStr, is_active |-> 1,
     from_capex |-> item_id,
     quantity |-> sched.term, unit_price |-> sched.monthly_amount, unit_cogs |-> NULL,
     frequency |-> "monthly", start_year |-> sched.start_year,
     start_month |-> sched.start_month, months |-> sched.term]

\* POST /scenarios/1/capex/{item_id}/generate/boq
GenerateBoqFromCapex(in, sid, item_id) ==
    IF ~ CapexFound(in, sid, item_id) THEN [in |-> in, res |-> [status |-> 404]]
    ELSE LET row == in.capex[item_id]
             sched == ComputeReturnSchedule(in.scenarios[sid], row)
             new_id == Len(in.boq) + 1
         IN  IF OrElse(row.linked_boq_item_id, 0) # 0
             THEN [in |-> in,
                   res |-> [status |-> 201, linked_boq_item_id |-> row.linked_boq_item_id,
                            months |-> NULL]]
             ELSE IF sched.status # 200 THEN [in |-> in, res |-> [status |-> sched.status]]
             ELSE [in |-> [in EXCEPT
                             !.boq = Append(@, GeneratedBoqItem(sid, item_id, sched)),
                             !.capex[item_id].linked_boq_item_id = new_id],
                   res |-> [status |-> 201, linked_boq_item_id |-> new_id,
                            months |-> sched.term]]

\* scenario 1 (3 months from 2025-01, no default reward percent) with empty tables
CapexInputs == OverlayInputs(<<>>, NoRebates, <<>>, <<>>, <<>>, <<>>, NULL)

CapexCalc(n, op, item_id, res) ==
    [step |-> op, fam |-> "capex", n |-> n, item_id |-> item_id, res |-> res]

InitCapex ==
    /\ inp = CapexInputs
    /\ calc = CapexCalc(0, "init", NULL, <<>>)
    /\ db = EmptyStore
    /\ work = EmptyStore
    /\ lock = NoProc
    /\ pc = [p \in Procs |-> "idle"]
    /\ loc = [p \in Procs |-> IdleLoc]
    /\ call = NoCall

\* the one CAPEX row is created first
CxCreate ==
    /\ calc.step = "init"
    /\ \E payload \in CapexPayloads :
         LET out == CreateCapex(inp, CalcScenario, payload)
         IN  /\ inp' = out.in
             /\ calc' = CapexCalc(0, "create", out.res.id, out.res)
    /\ UNCHANGED <<db, work, lock, pc, loc, call>>

CxUpdate ==
    /\ calc.step # "init"
    /\ calc.n < MaxCapexOps
    /\ \E item_id \in {1, 2}, payload \in CapexPayloads :
         LET out == UpdateCapex(inp, CalcScenario, item_id, payload)
         IN  /\ inp' = out.in
             /\ calc' = CapexCalc(calc.n + 1, "update", item_id, out.res)
    /\ UNCHANGED <<db, work, lock, pc, loc, call>>

CxGenerateService ==
    /\ calc.step # "init"
    /\ calc.n < MaxCapexOps
    /\ \E item_id \in {1, 2} :
         LET out == GenerateServiceFromCapex(inp, CalcScenario, item_id)
         IN  /\ inp' = out.in
             /\ calc' = CapexCalc(calc.n + 1, "generate_service", item_id, out.res)
    /\ UNCHANGED <<db, work, lock, pc, loc, call>>

CxGenerateBoq ==
    /\ calc.step # "init"
    /\ calc.n < MaxCapexOps
    /\ \E item_id \in {1, 2} :
         LET out == GenerateBoqFromCapex(inp, CalcScenario, item_id)
         IN  /\ inp' = out.in
             /\ calc' = CapexCalc(calc.n + 1, "generate_boq", item_id, out.res)
    /\ UNCHANGED <<db, work, lock, pc, loc, call>>

NextCapex ==
    \/ CxCreate
    \/ CxUpdate
    \/ CxGenerateService
    \/ CxGenerateBoq
SpecCapex == InitCapex /\ [][NextCapex]_vars

\* ================================================================ workflow
\* api/workflow.py and boq.py mark_boq_ready: the readiness flags of a scenario.
\* A scenario row is [attrs, workflow_state]: attrs maps the is_*_ready columns the
\* schema has to 1 / 0 / NULL.  Inside a request the ORM object may carry attributes
\* that are not columns (a setattr on a missing column); they are lost at the commit.

STAGES == <<"boq", "twc", "capex", "fx", "tax", "services", "rebates", "rise_fall", "summary">>

STAGE_TO_FLAG(stage) ==
    CASE stage = "boq" -> "boq_ready"
      [] stage = "twc" -> "twc_ready"
      [] stage = "capex" -> "capex_ready"
      [] stage = "fx" -> "fx_ready"
      [] stage = "tax" -> "tax_ready"
      [] stage = "services" -> "services_ready"
      [] stage = "rebates" -> "rebates_ready"
      [] stage = "rise_fall" -> "rise_fall_ready"
      [] stage = "summary" -> "summary_ready"

FlagNames == {STAGE_TO_FLAG(STAGES[i]) : i \in 1..Len(STAGES)}

\* f"is_{flag}"
FlagColumn(flag) ==
    CASE flag = "boq_ready" -> "is_boq_ready"
      [] flag = "twc_ready" -> "is_twc_ready"
      [] flag = "capex_ready" -> "is_capex_ready"
      [] flag = "fx_ready" -> "is_fx_ready"
      [] flag = "tax_ready" -> "is_tax_ready"
      [] flag = "services_ready" -> "is_services_ready"
      [] flag = "rebates_ready" -> "is_rebates_ready"
      [] flag = "rise_fall_ready" -> "is_rise_fall_ready"
      [] flag = "summary_ready" -> "is_summary_ready"

STATE_ORDER ==
    <<"draft", "boq_ready", "twc_ready", "capex_ready", "fx_ready", "tax_ready",
      "services_ready", "ready">>

\* STATE_IDX.get(s, 0)
STATE_IDX(s) ==
    IF \E i \in 1..Len(STATE_ORDER) : STATE_ORDER[i] = s
    THEN (CHOOSE i \in 1..Len(STATE_ORDER) : STATE_ORDER[i] = s) - 1
    ELSE 0

\* _derive_from_state
DeriveFromState(state) ==
    LET s == IF state = NullStr \/ state = "" THEN "draft" ELSE state
        idx == STATE_IDX(s)
    IN  [f \in FlagNames |->
            CASE f = "boq_ready" -> idx >= STATE_IDX("twc_ready")
              [] f = "twc_ready" -> idx >= STATE_IDX("capex_ready")
              [] f = "capex_ready" -> idx >= STATE_IDX("fx_ready")
              [] f = "fx_ready" -> idx >= STATE_IDX("tax_ready")
              [] f = "tax_ready" -> idx >= STATE_IDX("services_ready")
              [] f = "services_ready" -> idx >= STATE_IDX("ready")
              [] f = "rebates_ready" -> FALSE
              [] f = "rise_fall_ready" -> FALSE
              [] f = "summary_ready" -> idx >= STATE_IDX("ready")]

\* _coalesce_bool: a missing attribute or a None gives the default
CoalesceBool(obj, name, default) ==
    IF name \in DOMAIN obj.attrs /\ obj.attrs[name] # NULL
    THEN obj.attrs[name] # 0
    ELSE default

\* _flags_from_model
FlagsFromModel(obj) ==
    LET derived == DeriveFromState(obj.workflow_state)
    IN  [f \in FlagNames |-> CoalesceBool(obj, FlagColumn(f), derived[f])]

\* _status_payload: the first incomplete stage is the current one
StatusPayload(flags) ==
    LET open == {i \in 1..Len(STAGES) : ~ flags[STAGE_TO_FLAG(STAGES[i])]}
        i == IF open = {} THEN Len(STAGES) ELSE CHOOSE k \in open : \A j \in open : k <= j
    IN  [status |-> 200, flags |-> flags, current_stage |-> STAGES[i],
         next_stage |-> IF i + 1 <= Len(STAGES) THEN STAGES[i + 1] ELSE NullStr]

\* _try_set_flag: setattr on the object, column or not
TrySetFlag(obj, name, value) == [obj EXCEPT !.attrs = (name :> value) @@ obj.attrs]

\* db.add(sc); db.commit(); db.refresh(sc): only the columns of the row are stored
CommitScenario(in, sid, obj) ==
    [in EXCEPT !.scenarios[sid] =
        [attrs |-> [c \in DOMAIN in.scenarios[sid].attrs |-> obj.attrs[c]],
         workflow_state |-> obj.workflow_state]]

\* _counts
Counts(in, sid) ==
    [boq_active |-> Cardinality({k \in DOMAIN in.boq :
                        in.boq[k].scenario_id = sid /\ in.boq[k].is_active = 1}),
     twc_rows |-> Cardinality({k \in DOMAIN in.twc : in.twc[k].scenario_id = sid}),
     capex_active |-> Cardinality({k \in DOMAIN in.capex :
                        in.capex[k].scenario_id = sid
                        /\ (in.capex[k].is_active = 1 \/ in.capex[k].is_active = NULL)}),
     services_active |-> Cardinality({k \in DOMAIN in.services :
                        in.services[k].scenario_id = sid
                        /\ (in.services[k].is_active = 1 \/ in.services[k].is_active = NULL)})]

\* ws_map of _persist_stage
WsMap(stage) ==
    CASE stage = "twc" -> "twc_ready"
      [] stage = "capex" -> "capex_ready"
      [] stage = "fx" -> "fx_ready"
      [] stage = "tax" -> "tax_ready"
      [] stage = "services" -> "services_ready"
      [] stage = "summary" -> "ready"
      [] OTHER -> NullStr

\* _persist_stage: the object after the flag and the legacy state are set
PersistStage(obj, stage) ==
    LET o == TrySetFlag(obj, FlagColumn(STAGE_TO_FLAG(stage)), 1)
    IN  IF WsMap(stage) # NullStr THEN [o EXCEPT !.workflow_state = WsMap(stage)] ELSE o

\* a handler that found its preconditions met: commit the object, answer its flags
Persisted(in, sid, obj) ==
    [in |-> CommitScenario(in, sid, obj), res |-> StatusPayload(FlagsFromModel(obj))]

Rejected(in, code) == [in |-> in, res |-> [status |-> code]]

\* GET /{scenario_id}/workflow
GetWorkflowStatus(in, sid) ==
    IF sid \notin DOMAIN in.scenarios THEN Rejected(in, 404)
    ELSE [in |-> in, res |-> StatusPayload(FlagsFromModel(in.scenarios[sid]))]

\* POST /{scenario_id}/boq/mark-ready
MarkBoqReady(in, sid) ==
    IF sid \notin DOMAIN in.scenarios THEN Rejected(in, 404)
    ELSE IF Counts(in, sid).boq_active = 0 THEN Rejected(in, 400)
    ELSE LET sc == in.scenarios[sid]
             obj == [TrySetFlag(sc, "is_boq_ready", 1) EXCEPT !.workflow_state = "twc"]
         IN  [in |-> CommitScenario(in, sid, obj),
              res |-> [status |-> 200, is_boq_ready |-> obj.attrs["is_boq_ready"],
                       workflow_state |-> obj.workflow_state]]

MarkTwcReady(in, sid) ==
    IF sid \notin DOMAIN in.scenarios THEN Rejected(in, 404)
    ELSE IF ~ FlagsFromModel(in.scenarios[sid])["boq_ready"] THEN Rejected(in, 422)
    ELSE IF ~ (Counts(in, sid).boq_active > 0) THEN Rejected(in, 422)
    ELSE Persisted(in, sid, PersistStage(in.scenarios[sid], "twc"))

MarkCapexReady(in, sid) ==
    IF sid \notin DOMAIN in.scenarios THEN Rejected(in, 404)
    ELSE IF ~ FlagsFromModel(in.scenarios[sid])["twc_ready"] THEN Rejected(in, 422)
    ELSE IF ~ (Counts(in, sid).capex_active > 0) THEN Rejected(in, 422)
    ELSE Persisted(in, sid, PersistStage(in.scenarios[sid], "capex"))

MarkFxReady(in, sid) ==
    IF sid \notin DOMAIN in.scenarios THEN Rejected(in, 404)
    ELSE IF ~ FlagsFromModel(in.scenarios[sid])["capex_ready"] THEN Rejected(in, 422)
    ELSE Persisted(in, sid, PersistStage(in.scenarios[sid], "fx"))

MarkTaxReady(in, sid) ==
    IF sid \notin DOMAIN in.scenarios THEN Rejected(in, 404)
    ELSE IF ~ FlagsFromModel(in.scenarios[sid])["fx_ready"] THEN Rejected(in, 422)
    ELSE Persisted(in, sid, PersistStage(in.scenarios[sid], "tax"))

MarkServicesReady(in, sid) ==
    IF sid \notin DOMAIN in.scenarios THEN Rejected(in, 404)
    ELSE IF ~ FlagsFromModel(in.scenarios[sid])["tax_ready"] THEN Rejected(in, 422)
    ELSE IF ~ (Counts(in, sid).services_active > 0) THEN Rejected(in, 422)
    ELSE Persisted(in, sid, PersistStage(in.scenarios[sid], "services"))

MarkRebatesReady(in, sid) ==
    IF sid \notin DOMAIN in.scenarios THEN Rejected(in, 404)
    ELSE IF ~ FlagsFromModel(in.scenarios[sid])["boq_ready"] THEN Rejected(in, 422)
    ELSE Persisted(in, sid, TrySetFlag(in.scenarios[sid], "is_rebates_ready", 1))

MarkRiseFallReady(in, sid) ==
    IF sid \notin DOMAIN in.scenarios THEN Rejected(in, 404)
    ELSE IF ~ FlagsFromModel(in.scenarios[sid])["boq_ready"] THEN Rejected(in, 422)
    ELSE Persisted(in, sid, TrySetFlag(in.scenarios[sid], "is_rise_fall_ready", 1))

MarkSummaryReady(in, sid) ==
    IF sid \notin DOMAIN in.scenarios THEN Rejected(in, 404)
    ELSE IF ~ FlagsFromModel(in.scenarios[sid])["services_ready"] THEN Rejected(in, 422)
    ELSE Persisted(in, sid,
            [TrySetFlag(in.scenarios[sid], "is_summary_ready", 1)
                EXCEPT !.workflow_state = "ready"])

\* all nine flags to False, in the order of the handler's loop
RECURSIVE ClearFlags(_, _)
ClearFlags(obj, names) ==
    IF names = <<>> THEN obj
    ELSE ClearFlags(TrySetFlag(obj, FlagColumn(Head(names)), 0), Tail(names))

\* mutant: the reset clears is_boq_ready only
ResetWorkflowBoqOnly(in, sid) ==
    IF sid \notin DOMAIN in.scenarios THEN Rejected(in, 404)
    ELSE Persisted(in, sid,
            [TrySetFlag(in.scenarios[sid], "is_boq_ready", 0)
                EXCEPT !.workflow_state = "draft"])

\* POST /{scenario_id}/workflow/reset
ResetWorkflow(in, sid) ==
    IF sid \notin DOMAIN in.scenarios THEN Rejected(in, 404)
    ELSE Persisted(in, sid,
            [ClearFlags(in.scenarios[sid],
                        <<"boq_ready", "twc_ready", "capex_ready", "fx_ready", "tax_ready",
                          "services_ready", "rebates_ready", "rise_fall_ready",
                          "summary_ready">>)
                EXCEPT !.workflow_state = "draft"])

\* ------------------------------------------------------------ SpecWorkflow
\* the scenarios table with all nine is_*_ready columns, and the older one with the
\* four columns the scenario list selects
AllFlagColumns == {FlagColumn(f) : f \in FlagNames}
LegacyFlagColumns == {"is_boq_ready", "is_twc_ready", "is_capex_ready", "is_services_ready"}

\* a scenario as reset_workflow leaves it
ResetScenario(cols) == [attrs |-> [c \in cols |-> 0], workflow_state |-> "draft"]

CountedRow(active) == [scenario_id |-> CalcScenario, is_active |-> active]

WorkflowInputs(cols, boq, capex, services) ==
    [scenarios |-> (CalcScenario :> ResetScenario(cols)),
     boq |-> boq, twc |-> <<>>, capex |-> capex, services |-> services]

WorkflowCalc(op, sid, res) == [step |-> op, fam |-> "workflow", sid |-> sid, res |-> res]

InitWorkflow ==
    /\ \E cols \in {AllFlagColumns, LegacyFlagColumns},
          boq \in {<<>>, <<CountedRow(1)>>, <<CountedRow(0)>>},
          capex \in {<<>>, <<CountedRow(NULL)>>, <<CountedRow(0)>>},
          services \in {<<>>, <<CountedRow(1)>>, <<CountedRow(0)>>} :
            inp = WorkflowInputs(cols, boq, capex, services)
    /\ calc = WorkflowCalc("init", NULL, <<>>)
    /\ db = EmptyStore
    /\ work = EmptyStore
    /\ lock = NoProc
    /\ pc = [p \in Procs |-> "idle"]
    /\ loc = [p \in Procs |-> IdleLoc]
    /\ call = NoCall

WorkflowSids == {CalcScenario, CalcScenario + 1}

WfGetStatus ==
    /\ calc.fam = "workflow"
    /\ \E sid \in WorkflowSids :
         LET out == GetWorkflowStatus(inp, sid)
         IN  inp' = out.in /\ calc' = WorkflowCalc("get_workflow_status", sid, out.res)
    /\ UNCHANGED <<db, work, lock, pc, loc, call>>

WfMarkBoqReady ==
    /\ calc.fam = "workflow"
    /\ \E sid \in WorkflowSids :
         LET out == MarkBoqReady(inp, sid)
         IN  inp' = out.in /\ calc' = WorkflowCalc("mark_boq_ready", sid, out.res)
    /\ UNCHANGED <<db, work, lock, pc, loc, call>>

WfMarkTwcReady ==
    /\ calc.fam = "workflow"
    /\ \E sid \in WorkflowSids :
         LET out == MarkTwcReady(inp, sid)
         IN  inp' = out.in /\ calc' = WorkflowCalc("mark_twc_ready", sid, out.res)
    /\ UNCHANGED <<db, work, lock, pc, loc, call>>

WfMarkCapexReady ==
    /\ calc.fam = "workflow"
    /\ \E sid \in WorkflowSids :
         LET out == MarkCapexReady(inp, sid)
         IN  inp' = out.in /\ calc' = WorkflowCalc("mark_capex_ready", sid, out.res)
    /\ UNCHANGED <<db, work, lock, pc, loc, call>>

WfMarkFxReady ==
    /\ calc.fam = "workflow"
    /\ \E sid \in WorkflowSids :
         LET out == MarkFxReady(inp, sid)
         IN  inp' = out.in /\ calc' = WorkflowCalc("mark_fx_ready", sid, out.res)
    /\ UNCHANGED <<db, work, lock, pc, loc, call>>

WfMarkTaxReady ==
    /\ calc.fam = "workflow"
    /\ \E sid \in WorkflowSids :
         LET out == MarkTaxReady(inp, sid)
         IN  inp' = out.in /\ calc' = WorkflowCalc("mark_tax_ready", sid, out.res)
    /\ UNCHANGED <<db, work, lock, pc, loc, call>>

WfMarkServicesReady ==
    /\ calc.fam = "workflow"
    /\ \E sid \in WorkflowSids :
         LET out == MarkServicesReady(inp, sid)
         IN  inp' = out.in /\ calc' = WorkflowCalc("mark_services_ready", sid, out.res)
    /\ UNCHANGED <<db, work, lock, pc, loc, call>>

WfMarkRebatesReady ==
    /\ calc.fam = "workflow"
    /\ \E sid \in WorkflowSids :
         LET out == MarkRebatesReady(inp, sid)
         IN  inp' = out.in /\ calc' = WorkflowCalc("mark_rebates_ready", sid, out.res)
    /\ UNCHANGED <<db, work, lock, pc, loc, call>>

WfMarkRiseFallReady ==
    /\ calc.fam = "workflow"
    /\ \E sid \in WorkflowSids :
         LET out == MarkRiseFallReady(inp, sid)
         IN  inp' = out.in /\ calc' = WorkflowCalc("mark_rise_fall_ready", sid, out.res)
    /\ UNCHANGED <<db, work, lock, pc, loc, call>>

WfMarkSummaryReady ==
    /\ calc.fam = "workflow"
    /\ \E sid \in WorkflowSids :
         LET out == MarkSummaryReady(inp, sid)
         IN  inp' = out.in /\ calc' = WorkflowCalc("mark_summary_ready", sid, out.res)
    /\ UNCHANGED <<db, work, lock, pc, loc, call>>

WfReset ==
    /\ calc.fam = "workflow"
    /\ \E sid \in WorkflowSids :
         LET out == ResetWorkflow(inp, sid)
         IN  inp' = out.in /\ calc' = WorkflowCalc("reset_workflow", sid, out.res)
    /\ UNCHANGED <<db, work, lock, pc, loc, call>>

NextWorkflow ==
    \/ WfGetStatus
    \/ WfMarkBoqReady
    \/ WfMarkTwcReady
    \/ WfMarkCapexReady
    \/ WfMarkFxReady
    \/ WfMarkTaxReady
    \/ WfMarkServicesReady
    \/ WfMarkRebatesReady
    \/ WfMarkRiseFallReady
    \/ WfMarkSummaryReady
    \/ WfReset
SpecWorkflow == InitWorkflow /\ [][NextWorkflow]_vars

\* ================================================================ claims
RunFacts(store, run_id) == {f \in store.facts : f.run_id = run_id}
FactView(f) ==
    [sheet |-> f.sheet, cat |-> f.cat, yyyymm |-> f.yyyymm, series |-> f.series,
     value |-> f.value]
SeqRange(q) == {q[k] : k \in 1..Len(q)}

OnePerKey(store) == \A f, g \in store.facts : KeyOf(f) = KeyOf(g) => f = g
LastWriteWins(store) ==
    /\ \A f \in store.facts :
          KeyOf(f) \in DOMAIN store.last /\ store.last[KeyOf(f)] = f.value
    /\ \A k \in DOMAIN store.last : \E f \in store.facts : KeyOf(f) = k

\* C1: after any sequence of fact writes (upsert_fact, persist_records,
\* persist_triplet, persist_many, persist_an_facts, the RunEngine persist step, the
\* quarterly aggregation and the quarterly backfill) the fact table -- committed,
\* and as the writing connection sees it -- holds at most one row per key
\* (run_id, sheet_code, category_code, yyyymm, series), and that row's value is
\* the value of the most recent write to the key.
C1_OneRowPerKeyLastWrite ==
    /\ OnePerKey(db) /\ LastWriteWins(db)
    /\ OnePerKey(work) /\ LastWriteWins(work)

\* C1 witness: a key RunEngine wrote (revenue 50 for 2025-02) has been overwritten
\* by persist_records with a list that writes it twice (1, then 2), next to rows
\* the quarterly backfill inserted; the single row holds 2.
C1_Witness ==
    /\ call.op = "persist_records"
    /\ \E f \in db.facts :
          /\ f.run_id = call.rid /\ f.sheet = LibSheet /\ f.yyyymm = 202502
          /\ f.series = "revenue" /\ f.value = Money(2) /\ f.scenario_id = 1
    /\ \E g \in db.facts : g.sheet.pfx = "oQ.Finance-" /\ g.scenario_id = NULL

Expected(p) ==
    IF p \in Engines THEN {w : w \in SeqRange(EngineWrites(p))}
    ELSE {w : w \in SeqRange(ScriptWrites(p))}

\* C3: when an invocation that started a run ends, then if it failed (an error
\* during computation or on the k-th fact write) no fact of its run is visible
\* in the Fact Store, and if it succeeded exactly the complete set of its facts is.
C3_AllOrNothing ==
    [][\A p \in Procs :
          (pc[p] # "done" /\ pc'[p] = "done" /\ loc[p].own # NULL) =>
             IF loc'[p].out = "ok"
             THEN {FactView(f) : f \in RunFacts(db', loc[p].own)} = Expected(p)
             ELSE RunFacts(db', loc[p].own) = {}]_vars

\* the facts generated by the time the run is stamped: those of the script exist
\* once compute() has reached its INSERT loop
Generated(p) ==
    IF p \in Engines THEN EngineWrites(p)
    ELSE IF lock = p \/ loc[p].out = "ok" THEN ScriptWrites(p) ELSE <<>>

\* C4: the Run row exists before any fact of the run is written, and whenever a
\* run gets its finished_at stamped every fact generated for it has been written.
C4_RunRowFirstStampLast ==
    [][/\ \A f \in work'.facts : f.run_id \in RunIds(work')
       /\ \A p \in Engines : ReFinish(p) => loc[p].k = Len(Generated(p))
       /\ \A p \in Scripts : ScFinishRun(p) => loc[p].k = Len(Generated(p))]_vars

\* the operations C5 names: a RunEngine call, the quarterly aggregation, the backfill
EngineStep == \E p \in Engines : RunEngine(p) \/ ReReturn(p)
QuarterlyStep == QuarterlyBackfillRun \/ PersistQuarterlyRun

Finished(store) == {r \in store.runs : r.finished}
SameRun(r) == r \in db'.runs /\ RunFacts(db', r.id) = RunFacts(db, r.id)
SameRunBut(r, pfx) ==
    /\ r \in db'.runs
    /\ {f \in RunFacts(db', r.id) : f.sheet.pfx # pfx}
         = {f \in RunFacts(db, r.id) : f.sheet.pfx # pfx}

\* C5 as stated: once a run is finished, no later RunEngine call, quarterly
\* aggregation or quarterly backfill inserts, updates or deletes a fact under its
\* run id or changes its Run row.
C5_FinishedRunImmutable ==
    [][(\A r \in Finished(db) : SameRun(r)) \/ ~ (EngineStep \/ QuarterlyStep)]_vars

\* C5 amended: once a run is finished, no later RunEngine call changes its Run row
\* or any of its facts; the quarterly aggregation and the quarterly backfill leave
\* its Run row and every fact outside the oQ.Finance-* sheets unchanged (they
\* delete and rewrite the run's oQ.Finance-* facts).
C5_FinishedRunImmutableButQuarterly ==
    [][/\ (\A r \in Finished(db) : SameRun(r)) \/ ~ EngineStep
       /\ (\A r \in Finished(db) : SameRunBut(r, "oQ.Finance-")) \/ ~ QuarterlyStep]_vars

\* C5 witness: a finished run whose oQ.Finance-AN rows were replaced by the
\* backfill (scenario_id NULL, quarter-end month) while a second run is finished too.
C5_Witness ==
    \E r \in Finished(db) :
        /\ \E f \in RunFacts(db, r.id) :
              f.sheet.pfx = "oQ.Finance-" /\ f.scenario_id = NULL /\ f.yyyymm = 202503
        /\ \E f \in RunFacts(db, r.id) : f.sheet.pfx = "oA.Finance-" /\ f.yyyymm = 202502
        /\ \E q \in Finished(db) : q.id # r.id

\* C6: a library persist (persist_records, persist_many, persist_an_facts, and
\* upsert_fact / persist_triplet) called again with the same arguments on the store
\* its first call left leaves the store exactly as it was: the same rows and the
\* same value for every key.
C6_RepeatIsIdempotent == [][db' = db \/ ~ LibRepeat]_vars

\* C6 witness: persist_many has run twice for a run whose revenue and cogs rows it
\* wrote (3 and 1) with the derived gp row (2).
C6_Witness ==
    /\ call.op = "persist_many" /\ call.n = MaxLibCalls + 1
    /\ \E f \in RunFacts(db, call.rid) :
          f.series = "gp" /\ f.value = Money(2) /\ f.yyyymm = 202502
    /\ \E f \in RunFacts(db, call.rid) : f.series = "cogs" /\ f.value = Money(1)

\* C7: a RunEngine request (or a script start) for a scenario id that does not
\* exist ends at once with NotFound and leaves the Run table and the Fact Store
\* unchanged; no invocation for a missing scenario ever computes or persists.
C7_NotFoundNoEffect ==
    [][\A p \in Procs :
          /\ (pc[p] = "idle" /\ pc'[p] # "idle" /\ ~ (loc'[p].sid \in DOMAIN inp.scenarios)) =>
                /\ pc'[p] = "done" /\ loc'[p].out = "notfound"
                /\ db' = db /\ work' = work /\ lock' = lock
          /\ pc'[p] \notin {"idle", "done"} => loc'[p].sid \in DOMAIN inp.scenarios]_vars

\* C7 witness: a request for scenario 3 has ended NotFound while the other request
\* is in the middle of its writes.
C7_Witness ==
    /\ pc["e1"] = "done" /\ loc["e1"].out = "notfound" /\ loc["e1"].sid = 3
    /\ pc["e2"] = "write" /\ loc["e2"].k > 0

\* ------------------------------------------------------------------- C8
\* values of the generated sheet `name` (empty when the sheet was not generated)
GeneratedValues(name) ==
    LET hits == SelectSeq(calc.res.generated, LAMBDA x : x.name = name)
    IN  IF hits = <<>> THEN <<>> ELSE Head(hits).values

AnEnabled == \E k \in 1..Len(calc.req.categories) :
                calc.req.categories[k].code = "AN" /\ calc.req.categories[k].enabled

ActivePolicy(r) == r.scenario_id = CalcScenario /\ r.is_active \in {1, NULL}

\* scopes that lock the request: ALL, the enabled categories, and every one of
\* all/an/em/ie/services/capex when no category is enabled
LockingScopes ==
    LET en == {Upper(calc.req.categories[k].code) :
                 k \in {j \in 1..Len(calc.req.categories) : calc.req.categories[j].enabled}}
    IN  IF en = {} THEN {"ALL", "AN", "EM", "IE", "SERVICES", "CAPEX"} ELSE {"ALL"} \cup en

PolicyInScope ==
    \E k \in 1..Len(inp.policies) :
        /\ ActivePolicy(inp.policies[k])
        /\ inp.policies[k].scope # NullStr
        /\ Upper(inp.policies[k].scope) \in LockingScopes

AnRevenue == GeneratedValues(SheetName("oA.Finance-", "AN", ".Revenue"))
AnCogs == GeneratedValues(SheetName("oA.Finance-", "AN", ".COGS"))
AnGp == GeneratedValues(SheetName("oA.Finance-", "AN", ".GP"))

\* C8 as stated: any active escalation policy of the scenario locks rise-and-fall
\* ON, with the note, whatever the policy's scope and the enabled categories.
C8_LockedOnWhenAnyActivePolicy ==
    (calc.step = "ran" /\ calc.fam = "lock"
        /\ \E k \in 1..Len(inp.policies) : ActivePolicy(inp.policies[k]))
    => (calc.res.locks /\ calc.res.notes = LockNote)

\* C8 (amended): when an active escalation policy whose scope is ALL or one of the
\* enabled categories exists (any scope of all/an/em/ie/services/capex when no
\* category is enabled), RunEngine reports the rise-and-fall lock ON with the note
\* and escalates the categories the policy covers -- 1 % a month on the AN revenue
\* of 50 for scope ALL or AN, no change to AN for another scope -- even when the
\* caller passes rise_and_fall = false.
C8_LockedOnWhenPolicyInScope ==
    (calc.step = "ran" /\ calc.fam = "lock" /\ PolicyInScope)
    => /\ calc.res.locks
       /\ calc.res.notes = LockNote
       /\ AnEnabled =>
            IF Upper(inp.policies[1].scope) \in {"ALL", "AN"}
            THEN /\ AnRevenue[0] = Money(50)
                 /\ AnRevenue[1] = (Money(50) * 101) \div 100
                 /\ AnRevenue[2] > AnRevenue[1]
            ELSE \A i \in 0..2 : AnRevenue[i] = Money(50)

C8_Witness ==
    /\ calc.step = "ran" /\ calc.fam = "lock" /\ PolicyInScope /\ AnEnabled
    /\ calc.req.options.rise_and_fall = 0
    /\ inp.policies[1].scope = "AN"
    /\ calc.res.locks
    /\ AnRevenue[1] = (Money(50) * 101) \div 100

\* ------------------------------------------------------------------- C9
\* the scenario of the end-to-end example: 3 months from 2025-01, one active AN
\* line qty 10 x price 5 without cost, monthly for 3 months, no escalation policy
IsEndToEndScenario ==
    /\ inp.scenarios[CalcScenario] = [months |-> 3, start_year |-> 2025, start_month |-> 1]
    /\ inp.boq = <<CalcLine([y |-> 2025, m |-> 1], NULL, "monthly", 0, 3, 1)>>
    /\ inp.policies = <<>>

StoredValues(pfx, yyyymm, series) ==
    {f.value : f \in {g \in db.facts : /\ g.sheet = SheetName(pfx, "AN", "")
                                        /\ g.cat = "AN" /\ g.yyyymm = yyyymm
                                        /\ g.series = series}}

MonthlyAsStated ==
    /\ AnRevenue = [i \in 0..2 |-> Money(50)]
    /\ AnCogs = [i \in 0..2 |-> 0]
    /\ AnGp = [i \in 0..2 |-> Money(50)]

TheLine == inp.boq[1]
Horizon == inp.scenarios[CalcScenario].months
ScenarioStart == [y |-> inp.scenarios[CalcScenario].start_year,
                  m |-> inp.scenarios[CalcScenario].start_month]

\* o: months from the scenario start to the line's start month
StartOffset == LineOffsetRaw(TheLine, ScenarioStart.y, ScenarioStart.m)

\* an active monthly line with a duration that starts at or after the scenario start
MonthlyLineCase ==
    /\ calc.fam = "schedule"
    /\ TheLine.is_active = 1 /\ TheLine.frequency = "monthly"
    /\ TheLine.months # NULL /\ StartOffset >= 0

\* the month indexes of `count` consecutive months beginning at the line's start
PostedMonths(count) == {i \in 0..(Horizon - 1) : StartOffset <= i /\ i < StartOffset + count}

\* the schedule posts qty x price and qty x unit cost into those months and nothing
\* elsewhere: RunEngine's monthly sheets, and the finance script's fact rows
PostsExactly(count) ==
    /\ calc.step = "ran" =>
         \A i \in 0..(Horizon - 1) :
            /\ AnRevenue[i] = IF i \in PostedMonths(count) THEN Money(10 * 5) ELSE 0
            /\ AnCogs[i] = IF i \in PostedMonths(count)
                           THEN Money(10 * OrElse(TheLine.unit_cogs, 0)) ELSE 0
    /\ calc.step = "script" =>
         LET rows(suffix) == {f \in db.facts : f.sheet = SheetName("oA.Finance-", "AN", suffix)}
             at(i) == ParseYm(YmAt(ScenarioStart.y, ScenarioStart.m, i))
         IN  /\ {<<f.yyyymm, f.value>> : f \in rows(".Revenue")}
                  = {<<at(i), Money(10 * 5)>> : i \in PostedMonths(count)}
             /\ {<<f.yyyymm, f.value>> : f \in rows(".COGS")}
                  = IF TheLine.unit_cogs = NULL THEN {}
                    ELSE {<<at(i), Money(10 * TheLine.unit_cogs)>> : i \in PostedMonths(count)}

\* C10 as stated: exactly min(D, H - o) consecutive months from the line's start.
C10_PostsMinDurationHorizon ==
    MonthlyLineCase => PostsExactly(Min(TheLine.months, Horizon - StartOffset))

\* C10 (amended): an active monthly line with duration D and start offset o >= 0
\* posts the undivided qty x price (and qty x unit cost) into exactly
\* min(max(D, 1), H - o) consecutive months beginning at its start month -- a
\* duration below one month counts as one month -- and nothing into any other month.
C10_PostsClampedDuration ==
    MonthlyLineCase => PostsExactly(Min(Max(TheLine.months, 1), Horizon - StartOffset))

C10_Witness ==
    /\ MonthlyLineCase /\ calc.step = "ran"
    /\ Horizon = 3 /\ StartOffset = 1 /\ TheLine.months = 3
    /\ AnRevenue = [i \in 0..2 |-> IF i = 0 THEN 0 ELSE Money(50)]

\* --------------------------------------------------------------------- C11
\* an active line with frequency "once" whose start month lies inside the horizon
OnceLineCase ==
    /\ calc.fam = "schedule"
    /\ TheLine.is_active = 1 /\ TheLine.frequency = "once"
    /\ StartOffset \in 0..(Horizon - 1)

\* C11: an active "once" line posts the full qty x price into exactly one month, its
\* start month, and zero into every other month of the horizon -- in RunEngine's
\* monthly sheets and in the finance script's fact rows alike.
C11_OncePostsStartMonthOnly == OnceLineCase => PostsExactly(1)

\* the finance script has posted a "once" line with a duration of two months twice
C11_ScriptRepeatsOnceLine ==
    /\ OnceLineCase /\ calc.step = "script"
    /\ Horizon = 3 /\ StartOffset = 0 /\ TheLine.months = 2
    /\ {f.yyyymm : f \in {g \in db.facts : g.sheet = SheetName("oA.Finance-", "AN", ".Revenue")}}
         = {ParseYm(YmAt(ScenarioStart.y, ScenarioStart.m, 0)),
            ParseYm(YmAt(ScenarioStart.y, ScenarioStart.m, 1))}

\* --------------------------------------------------------------------- C12
TheRebate == inp.rebates.head[1]
RebateLag == OrElse(TheRebate.pay_month_lag, 0)

\* a single rebate of kind "percent" on basis revenue, scope all, whose first tier
\* carries the percent p
PercentRebateCase ==
    /\ calc.fam = "rebate"
    /\ Len(inp.rebates.head) = 1
    /\ TheRebate.kind = "percent" /\ TheRebate.basis \in {"revenue", NullStr}
    /\ TheRebate.scope = NullStr
    /\ inp.rebates.tiers # <<>> /\ inp.rebates.tiers[1].percent # NULL
FirstTierP == inp.rebates.tiers[1].percent

\* b * p / 100 for the basis value b
PercentOf(b) == (b * FirstTierP) \div 100

\* C12: a "percent" rebate on revenue with first-tier percent p and pay_month_lag L
\* adjusts the accrual of every month i with basis b by -b*p/100, and the cash array
\* carries the same amount at month i + L (inside the horizon) and nothing else:
\* in _apply_rebates' two arrays, in RunEngine's revenue sheet, and in the summary's
\* rebates_contra.
C12_PercentAccrualAndLaggedCash ==
    PercentRebateCase =>
      /\ calc.step = "rebated" =>
           \A i \in 0..2 :
              /\ calc.res.rb.net[i] - calc.res.rev[i] = 0 - PercentOf(calc.res.rev[i])
              /\ calc.res.rb.cash[i] =
                    IF i - RebateLag \in 0..2
                    THEN 0 - PercentOf(calc.res.rev[i - RebateLag]) ELSE 0
      /\ calc.step = "ran" =>
           \A i \in 0..2 : AnRevenue[i] = Money(1000) - PercentOf(Money(1000))
      /\ (calc.step = "summary" /\ calc.res.out.status = 200) =>
           \A i \in DOMAIN calc.res.out.items :
              calc.res.out.items[i].rebates_contra
                 = 0 - PercentOf(calc.res.out.items[i].revenue_boq)

\* RunEngine has returned the revenue of a 10 % "percent" rebate case undiminished
C12_PercentRebateIgnored ==
    /\ PercentRebateCase /\ calc.step = "ran"
    /\ FirstTierP = 10 /\ TheRebate.pay_month_lag = 2
    /\ AnRevenue = [i \in 0..2 |-> Money(1000)]

\* --------------------------------------------------------------------- C13
\* the accrual adjustment of every month is <= 0: _apply_rebates' net accrual and
\* RunEngine's revenue sheet do not exceed the revenue before the overlay, and the
\* summary's rebates_contra is not positive
AdjustmentNeverPositive ==
    /\ calc.step = "rebated" => \A i \in 0..2 : calc.res.rb.net[i] <= calc.res.rev[i]
    /\ calc.step = "ran" => \A i \in 0..2 : AnRevenue[i] <= Money(1000)
    /\ (calc.step = "summary" /\ calc.res.out.status = 200) =>
         \A i \in DOMAIN calc.res.out.items : calc.res.out.items[i].rebates_contra <= 0

\* no tier carries a negative percent and no lump a negative amount
RebateRowsNonNegative ==
    /\ \A k \in 1..Len(inp.rebates.tiers) :
          inp.rebates.tiers[k].percent = NULL \/ inp.rebates.tiers[k].percent >= 0
    /\ \A k \in 1..Len(inp.rebates.lumps) :
          inp.rebates.lumps[k].amt = NULL \/ inp.rebates.lumps[k].amt >= 0

\* C13 as stated: for every set of rebate definitions, tiers and lumps the accrual
\* adjustment is <= 0.
C13_AdjustmentNeverPositive == calc.fam = "rebate" => AdjustmentNeverPositive

\* C13 (amended): when the basis revenue is not negative and no tier percent and no
\* lump amount is negative, the rebate accrual adjustment of every month is <= 0:
\* revenue after the Rebate Overlay never exceeds the revenue before it.
C13_AdjustmentNeverPositiveForNonNegativeRows ==
    (calc.fam = "rebate" /\ RebateRowsNonNegative) => AdjustmentNeverPositive

\* a tiered rebate (5 % below 1500) has lowered the accrual of every month by 50
C13_Witness ==
    /\ calc.fam = "rebate" /\ RebateRowsNonNegative /\ calc.step = "rebated"
    /\ TheRebate.kind = "tier_percent" /\ Len(inp.rebates.head) = 1
    /\ calc.res.rev = [i \in 0..2 |-> Money(1000)]
    /\ calc.res.rb.net = [i \in 0..2 |-> Money(950)]

\* --------------------------------------------------------------------- C14
\* month i of the horizon as yyyymm
OverlayMonth(i) == ParseYm(YmAt(2025, 1, i))

\* no scenario_fx_rates row of the scenario and of the month's currency has a
\* validity window that contains month i
NoFxRowFor(i) ==
    \A k \in 1..Len(inp.fx) :
       \/ inp.fx[k].scenario_id # CalcScenario
       \/ inp.fx[k].currency # inp.services[1].currency
       \/ (inp.fx[k].start_year # NULL
           /\ inp.fx[k].start_year * 100 + inp.fx[k].start_month > OverlayMonth(i))
       \/ (inp.fx[k].end_year # NULL
           /\ inp.fx[k].end_year * 100 + inp.fx[k].end_month < OverlayMonth(i))

ServicesCogs == GeneratedValues(SheetName("oA.Finance-", "Services", ".COGS"))

\* C14: when no FX rate row matches (scenario, currency, month) the lookup returns no
\* rate and the month's amount passes through the conversion unchanged -- it is not
\* zeroed and nothing fails; RunEngine (no tax rule) then reports the unconverted
\* expense.
C14_MissingFxRatePassesThrough ==
    calc.fam = "services" =>
      \A i \in 0..2 :
         NoFxRowFor(i) =>
           /\ FxRateForMonth(inp.fx, CalcScenario, inp.services[1].currency,
                             2025, i + 1) = NULL
           /\ calc.step = "services" =>
                /\ calc.res.raw.sched[i] = Money(100)
                /\ calc.res.fx[i] = calc.res.raw.sched[i]
           /\ (calc.step = "ran" /\ inp.tax = <<>>) => ServicesCogs[i] = 0 - Money(100)

\* a USD rate of 2 valid from 2025-02: January passes through, February is converted
C14_Witness ==
    /\ calc.fam = "services" /\ calc.step = "services"
    /\ inp.services[1].currency = "USD" /\ inp.fx # <<>>
    /\ NoFxRowFor(0) /\ ~ NoFxRowFor(1)
    /\ calc.res.fx[0] = Money(100) /\ calc.res.fx[1] = Money(200)

\* --------------------------------------------------------------------- C15
\* a tax rule counts for month i: not inclusive, scoped to services or unscoped, and
\* its validity window contains the month
TaxRuleCounts(r, i) ==
    /\ r.is_inclusive # 1
    /\ r.applies_to \in {NullStr, "Services", "services"}
    /\ (r.start_year = NULL \/ r.start_year * 100 + r.start_month <= OverlayMonth(i))
    /\ (r.end_year = NULL \/ r.end_year * 100 + r.end_month >= OverlayMonth(i))

\* base[i] * rate / 100 summed over the rules that count, each on the same base
TaxAdded(base, i) ==
    SeqSum([k \in 1..Len(inp.tax) |->
        IF TaxRuleCounts(inp.tax[k], i) THEN (base * inp.tax[k].rate_pct) \div 100 ELSE 0])

\* C15: the Tax Applier returns, for every month i, base[i] plus the sum of
\* base[i] * rate / 100 over the rules that are not inclusive, are scoped to services
\* or unscoped and whose validity window contains month i -- each rule on the same
\* base, not compounding; with no such rule the month is unchanged.
C15_TaxIsAdditiveOverMatchingRules ==
    (calc.fam = "services" /\ calc.step = "services") =>
      \A i \in 0..2 :
         /\ calc.res.tax[i] = calc.res.fx[i] + TaxAdded(calc.res.fx[i], i)
         /\ (\A k \in 1..Len(inp.tax) : ~ TaxRuleCounts(inp.tax[k], i))
               => calc.res.tax[i] = calc.res.fx[i]

\* 10 % and 20 % on a base of 100: 130 where both rules count (132 if compounded),
\* 110 in the month the second rule's window leaves out
C15_Witness ==
    /\ calc.fam = "services" /\ calc.step = "services"
    /\ Len(inp.tax) = 2 /\ inp.tax[2].rate_pct = 20
    /\ TaxRuleCounts(inp.tax[2], 1) /\ ~ TaxRuleCounts(inp.tax[2], 0)
    /\ calc.res.fx = [i \in 0..2 |-> Money(100)]
    /\ calc.res.tax = [i \in 0..2 |-> IF i = 0 THEN Money(110) ELSE Money(130)]

\* --------------------------------------------------------------------- C16
TheAsset == inp.capex[1]
SummaryOk == calc.step = "summary" /\ calc.res.out.status = 200

\* a straight-line asset with a useful life of L > 0 months
StraightLineCase ==
    /\ calc.fam = "depr"
    /\ TheAsset.depr_method \in {NullStr, "straight_line"}
    /\ TheAsset.useful_life_months # NULL /\ TheAsset.useful_life_months > 0

\* the first month of depreciation: the service start, or the scenario start when the
\* service start is unset
DeprStart ==
    IF TheAsset.service_start_year = NULL
    THEN MonthOf(ScenarioStart.y, ScenarioStart.m)
    ELSE MonthOf(TheAsset.service_start_year, TheAsset.service_start_month)

\* the L consecutive months of the asset's life
LifeMonths ==
    {YmAt(DeprStart.y, DeprStart.m, k) : k \in 0..(TheAsset.useful_life_months - 1)}

\* max(amount - salvage, 0) / L
DeprPerMonth ==
    Max(Money(TheAsset.amount) - Money(OrElse(TheAsset.salvage_value, 0)), 0)
        \div TheAsset.useful_life_months

\* C16: a straight-line asset with useful life L > 0 puts max(amount - salvage, 0) / L
\* into capex_depr in exactly the L consecutive months that start at its service
\* start or, when that is unset, at the scenario start (seen through the summary's
\* window, amounts rounded to cents).
C16_DepreciatesLMonthsFromStart ==
    (StraightLineCase /\ SummaryOk) =>
      \A i \in DOMAIN calc.res.out.items :
         calc.res.out.items[i].capex_depr
            = IF YmAt(calc.res.frm.y, calc.res.frm.m, i) \in LifeMonths
              THEN Round2(DeprPerMonth) ELSE 0

\* an asset of 1200 without a service start and with a life of 2 months shows no
\* depreciation in any month of 2025-01..2025-06
C16_NoStartNoDepreciation ==
    /\ StraightLineCase /\ SummaryOk
    /\ TheAsset.service_start_year = NULL /\ TheAsset.useful_life_months = 2
    /\ TheAsset.salvage_value = NULL
    /\ calc.res.to = MonthOf(2025, 6)
    /\ \A i \in DOMAIN calc.res.out.items : calc.res.out.items[i].capex_depr = 0

\* --------------------------------------------------------------------- C17
\* the months of the summary's window
WindowMonths ==
    {YmAt(calc.res.frm.y, calc.res.frm.m, i) : i \in DOMAIN calc.res.out.items}

\* the depreciation the response shows over the whole window
DeprRecognized ==
    SeqSum([k \in 1..Cardinality(DOMAIN calc.res.out.items) |->
               calc.res.out.items[k - 1].capex_depr])

Abs(x) == IF x < 0 THEN 0 - x ELSE x

\* C17: for a straight-line asset with life L > 0 and amount >= salvage, the
\* depreciation recognized over the L months of its life sums to amount - salvage
\* (the response rounds each month to cents: within one cent per month), when the
\* window shows all L months.
C17_DepreciationSumsToBase ==
    (StraightLineCase /\ SummaryOk
       /\ TheAsset.amount >= OrElse(TheAsset.salvage_value, 0)
       /\ LifeMonths \subseteq WindowMonths) =>
      Abs(DeprRecognized - Money(TheAsset.amount - OrElse(TheAsset.salvage_value, 0)))
         <= TheAsset.useful_life_months * CentUnit

\* an asset of 1200 with salvage 200 and no service start: nothing is recognized over
\* 2025-01..2025-06 although its three months of life lie inside the window
C17_NothingRecognized ==
    /\ StraightLineCase /\ SummaryOk
    /\ TheAsset.service_start_year = NULL /\ TheAsset.useful_life_months = 3
    /\ TheAsset.salvage_value = 200
    /\ LifeMonths \subseteq WindowMonths
    /\ DeprRecognized = 0

\* --------------------------------------------------------------------- C18
\* the resolved reward percent and the term T of the asset
RewardPct == IfNull(TheAsset.reward_pct, inp.scenarios[CalcScenario].default_capex_reward_pct)
RewardTerm ==
    IF OrElse(TheAsset.term_months_override, 0) > 0 THEN TheAsset.term_months_override
    ELSE Horizon

\* amount x pct / 100
RewardTotal == (Money(TheAsset.amount) * RewardPct) \div 100

\* a reward-enabled asset with spread kind "even", percent > 0, amount > 0 and a term
RewardEvenCase ==
    /\ calc.fam = "reward"
    /\ TheAsset.reward_enabled = 1
    /\ TheAsset.reward_spread_kind \in {"even", NullStr}
    /\ RewardPct > 0 /\ TheAsset.amount > 0 /\ RewardTerm > 0

\* the T term months counted from the scenario start
TermMonths == {YmAt(ScenarioStart.y, ScenarioStart.m, k) : k \in 0..(RewardTerm - 1)}

\* C18: a reward-enabled asset with spread "even", percent > 0, amount > 0 and term T
\* yields the same reward revenue in each of the T term months counted from the
\* scenario start, and the T amounts sum to amount x pct / 100 (each amount rounded
\* to cents: within one cent per month) -- in the summary's capex_reward_rev and in
\* the return schedule the CAPEX handlers generate revenue lines from.
C18_EvenRewardSumsToTotal ==
    RewardEvenCase =>
      /\ SummaryOk =>
           /\ \A i \in DOMAIN calc.res.out.items :
                 calc.res.out.items[i].capex_reward_rev
                    = IF YmAt(calc.res.frm.y, calc.res.frm.m, i) \in TermMonths
                      THEN Round2(RewardTotal \div RewardTerm) ELSE 0
           /\ Abs(RewardTerm * Round2(RewardTotal \div RewardTerm) - RewardTotal)
                 <= RewardTerm * CentUnit
      /\ calc.step = "schedule" =>
           /\ calc.res.status = 200
           /\ MonthOf(calc.res.start_year, calc.res.start_month) = ScenarioStart
           /\ Abs(calc.res.term * calc.res.monthly_amount - RewardTotal)
                 <= calc.res.term * CentUnit

\* the return schedule of an asset of 1200 at 10 % over 4 months is 10 a month
C18_ScheduleDividesByTwelve ==
    /\ RewardEvenCase /\ calc.step = "schedule"
    /\ TheAsset.reward_pct = 10 /\ TheAsset.term_months_override = 4
    /\ calc.res.status = 200 /\ calc.res.term = 4
    /\ calc.res.monthly_amount = Money(10)

\* --------------------------------------------------------------------- C19
\* the last month of the calendar quarter / year of a month
CalendarQuarterEnd(yyyymm) ==
    LET m == yyyymm % 100
    IN  (yyyymm - m) + (IF m <= 3 THEN 3 ELSE IF m <= 6 THEN 6 ELSE IF m <= 9 THEN 9 ELSE 12)
CalendarYearEnd(yyyymm) == (yyyymm - (yyyymm % 100)) + 12

\* the months of the scenario's horizon as yyyymm
HorizonMonths == {ParseYm(YmAt(ScenarioStart.y, ScenarioStart.m, i)) : i \in 0..(Horizon - 1)}

\* after persist_quarterly_from_monthly / the backfill script: the monthly facts of
\* the source sheet and the facts of the quarterly sheet
SourceFacts(cat, series) ==
    {f \in db.facts : f.sheet.pfx = calc.src /\ f.cat = cat /\ f.series = series}
QuarterlyFacts(cat, series) ==
    {f \in db.facts : f.sheet.pfx = "oQ.Finance-" /\ f.cat = cat /\ f.series = series}

\* the categories the aggregation found in the source sheet (it writes no other)
AggregatedCategories == {f.cat : f \in {g \in db.facts : g.sheet.pfx = calc.src}}

StoredQuartersAreSums ==
    \A cat \in AggregatedCategories, series \in SeriesNames :
       /\ \A f \in QuarterlyFacts(cat, series) :
             /\ f.yyyymm % 100 \in {3, 6, 9, 12}
             /\ \E g \in SourceFacts(cat, series) : CalendarQuarterEnd(g.yyyymm) = f.yyyymm
             /\ \A g \in QuarterlyFacts(cat, series) : g.yyyymm = f.yyyymm => g = f
       /\ \A q \in {CalendarQuarterEnd(g.yyyymm) : g \in SourceFacts(cat, series)} :
             \E f \in QuarterlyFacts(cat, series) :
                /\ f.yyyymm = q
                /\ f.value = SumValues({g \in SourceFacts(cat, series) :
                                           CalendarQuarterEnd(g.yyyymm) = q})

\* compute_an_facts: its quarterly / annual facts against its monthly facts (the
\* finance series revenue is the monthly total_revenue of c.Sales-AN)
AnMonthlySum(months) ==
    SeqSum([k \in 1..Len(calc.an.facts_m) |->
        IF calc.an.facts_m[k].series = "total_revenue" /\ calc.an.facts_m[k].yyyymm \in months
        THEN calc.an.facts_m[k].value ELSE 0])

AnPeriodsAreSums ==
    /\ \A q \in {CalendarQuarterEnd(ym) : ym \in HorizonMonths} :
          {f.value : f \in {g \in SeqRange(calc.an.facts_q) :
                               g.series = "revenue" /\ g.yyyymm = q}}
             = {AnMonthlySum({ym \in HorizonMonths : CalendarQuarterEnd(ym) = q})}
    /\ \A y \in {CalendarYearEnd(ym) : ym \in HorizonMonths} :
          {f.value : f \in {g \in SeqRange(calc.an.facts_a) :
                               g.series = "revenue" /\ g.yyyymm = y}}
             = {AnMonthlySum({ym \in HorizonMonths : CalendarYearEnd(ym) = y})}
    /\ \A k \in 1..Len(calc.an.facts_q) :
          /\ calc.an.facts_q[k].yyyymm \in {CalendarQuarterEnd(ym) : ym \in HorizonMonths}
          /\ \A j \in 1..Len(calc.an.facts_q) :
                (calc.an.facts_q[j].yyyymm = calc.an.facts_q[k].yyyymm
                   /\ calc.an.facts_q[j].series = calc.an.facts_q[k].series) => j = k
    /\ \A k \in 1..Len(calc.an.facts_a) :
          /\ calc.an.facts_a[k].yyyymm \in {CalendarYearEnd(ym) : ym \in HorizonMonths}
          /\ \A j \in 1..Len(calc.an.facts_a) :
                (calc.an.facts_a[j].yyyymm = calc.an.facts_a[k].yyyymm
                   /\ calc.an.facts_a[j].series = calc.an.facts_a[k].series) => j = k

SheetValues(pfx, cat, suffix) == GeneratedValues(SheetName(pfx, cat, suffix))

\* within one cent (each series is rounded to cents on its own)
GpIsRevenueLessCogs(pfx, cat) ==
    \A i \in 0..2 :
       Abs(SheetValues(pfx, cat, ".GP")[i]
             - (SheetValues(pfx, cat, ".Revenue")[i] - SheetValues(pfx, cat, ".COGS")[i]))
          <= CentUnit

\* C20: on every sheet RunEngine produces, for every category (AN, EM, IE, Services)
\* and month, gp equals revenue less cogs of the same sheet and category.
C20_GpIsRevenueLessCogs ==
    calc.step = "ran" =>
      \A pfx \in {"oA.Finance-", "oQ.Finance-"}, cat \in {"AN", "Services"} :
         GpIsRevenueLessCogs(pfx, cat)

\* one service of 100 a month: Revenue 0, COGS -100 and GP -100
C20_ServicesCogsNegated ==
    /\ calc.fam = "services" /\ calc.step = "ran" /\ inp.fx = <<>> /\ inp.tax = <<>>
    /\ SheetValues("oA.Finance-", "Services", ".Revenue") = [i \in 0..2 |-> 0]
    /\ SheetValues("oA.Finance-", "Services", ".COGS") = [i \in 0..2 |-> 0 - Money(100)]
    /\ SheetValues("oA.Finance-", "Services", ".GP") = [i \in 0..2 |-> 0 - Money(100)]

\* --------------------------------------------------------------------- C21
\* the quarterly (target sheet) facts of the store
AllQuarterlyFacts(store) == {f \in store.facts : f.sheet.pfx = "oQ.Finance-"}

\* C21: a second run of persist_quarterly_from_monthly, or of the backfill script, for
\* the same run and source sheet over unchanged monthly facts leaves the quarterly
\* facts exactly as the first run left them (same keys, values and row count), and
\* leaves every other fact alone.
C21_SecondAggregationChangesNothing ==
    [][(CalcPersistQuarterlyAgain \/ CalcBackfillAgain) =>
          /\ AllQuarterlyFacts(db') = AllQuarterlyFacts(db)
          /\ Cardinality(AllQuarterlyFacts(db')) = Cardinality(AllQuarterlyFacts(db))
          /\ db'.facts = db.facts]_vars

\* the aggregation has run twice over three months of one quarter, and the stored
\* quarter holds the sum of more than one month
C21_Witness ==
    /\ calc.step \in {"reaggregated", "rebackfilled"}
    /\ \E f \in AllQuarterlyFacts(db) :
          /\ f.series = "revenue" /\ f.value > 0
          /\ Cardinality({g \in db.facts : /\ g.sheet.pfx = calc.src /\ g.cat = f.cat
                                           /\ g.series = f.series /\ g.value > 0
                                           /\ CalendarQuarterEnd(g.yyyymm) = f.yyyymm}) >= 2

\* --------------------------------------------------------------------- C22
EscPolicy == inp.policies[1]
EscScenario == FetchScenario(inp, CalcScenario)
\* the month index of the run engine policy's base month (base_year / base_month,
\* the scenario start where they are not given)
IsBaseMonth(i) ==
    YmAt(EscScenario.start_year, EscScenario.start_month, i) =
        [y |-> OrElse(EscPolicy.base_year, EscScenario.start_year),
         m |-> OrElse(EscPolicy.base_month, EscScenario.start_month)]
\* the components of the AN calculator's policy, none with an override base
BasketComponents == SelectSeq(inp.components, LAMBDA c : c.policy_id = inp.policy_id)
NoOverrideBase == \A k \in 1..Len(BasketComponents) : BasketComponents[k].base_index_value = NULL
WeightTotal == SeqSum([k \in 1..Len(BasketComponents) |-> BasketComponents[k].weight_pct])

RfIndexIsOneAtBase ==
    (calc.step = "built" /\ calc.fam = "index") =>
        \A i \in DOMAIN calc.res : IsBaseMonth(i) => calc.res[i] = MultOne
RnfIsOneAtBase ==
    (calc.step = "rnf" /\ inp.policy_id = 1 /\ NoOverrideBase) => calc.res[0] = MultOne

\* C22 as stated: for an index policy with no override base the multiplier at the base
\* month is exactly 1.0, whatever the weighted components and the index points -- in the
\* run engine (base month of the policy) and in the AN calculator (the contract start).
C22_IndexMultiplierIsOneAtBase == RfIndexIsOneAtBase /\ RnfIsOneAtBase

\* the run engine's index policy alone does give 1.0 at its base month
C22_RunEngineIndexIsOneAtBase == RfIndexIsOneAtBase

\* the AN calculator's multiplier at the base month is the sum of the weights
C22_BasketIsWeightTotalAtBase ==
    (calc.step = "rnf" /\ inp.policy_id = 1 /\ NoOverrideBase /\ BasketComponents # <<>>) =>
        calc.res[0] = (MultOne * WeightTotal) \div 100

\* reachable: two components of weight 60 and 30, no override: the multiplier at the
\* contract start is 0.9
C22_BaseMonthNotOne ==
    /\ calc.step = "rnf" /\ inp.policy_id = 1 /\ NoOverrideBase
    /\ WeightTotal = 90
    /\ calc.res[0] = (MultOne * 9) \div 10

\* --------------------------------------------------------------------- C23
FixedBuilt == calc.step = "built" /\ calc.fam = "fixed"
FixedPct == OrElse(EscPolicy.fixed_pct, 0)
FixedStep == OrElse(EscPolicy.step_per_month, 1)

\* (1 + p / 1200) ^ k in millionths, computed apart from the builder
RECURSIVE CompoundMillionths(_, _)
CompoundMillionths(p, k) ==
    IF k = 0 THEN 1000000 ELSE (CompoundMillionths(p, k - 1) * (1200 + p)) \div 1200

\* C23: for one fixed policy with annual percent p and step s, multiplier[0] = 1.0 and
\* for every i >= 1 multiplier[i] = multiplier[i-1] * (1 + p / 1200) when i is a
\* multiple of s, multiplier[i-1] otherwise; with s = 1 the multiplier after 12 months
\* is (1 + p / 1200) ^ 12 (to the rounding of the thirteen fixed-point products).
C23_FixedPolicyCompoundsEveryStep ==
    FixedBuilt =>
        /\ calc.res[0] = MultOne
        /\ \A i \in DOMAIN calc.res :
              i >= 1 =>
                 calc.res[i] = IF i % FixedStep = 0
                               THEN (calc.res[i - 1] * (1200 + FixedPct)) \div 1200
                               ELSE calc.res[i - 1]
        /\ (FixedStep = 1 /\ 12 \in DOMAIN calc.res) =>
              /\ calc.res[12] * 100 <= CompoundMillionths(FixedPct, 12) + 100
              /\ calc.res[12] * 100 >= CompoundMillionths(FixedPct, 12) - 1300

\* 12 % a year compounding every month over 13 months: the multiplier of month 12 is
\* 1.01 ^ 12 = 1.1268; and a policy with step 2 has moved only at month 2
C23_Witness ==
    /\ FixedBuilt
    /\ FixedPct = 12
    /\ \/ /\ FixedStep = 1 /\ 12 \in DOMAIN calc.res
          /\ calc.res[12] >= 11260 /\ calc.res[12] <= 11269
       \/ /\ FixedStep = 2 /\ 12 \in DOMAIN calc.res
          /\ calc.res[1] = MultOne /\ calc.res[2] = 10100 /\ calc.res[3] = 10100

\* --------------------------------------------------------------------- C24
\* an active policy of the scenario whose scope covers AN
ActivePolicyCoversAn ==
    \E k \in 1..Len(inp.policies) :
        ActivePolicy(inp.policies[k]) /\ PolicyMatches(inp.policies[k], "AN")

\* C24 as stated: when no active policy matches the category, the multiplier is 1.0 in
\* every month, so the AN revenue the engine returns is the raw schedule (50 a month).
C24_InactivePolicyChangesNothing ==
    (calc.step = "ran" /\ calc.fam = "lock" /\ AnEnabled /\ ~ ActivePolicyCoversAn)
    => \A i \in 0..2 : AnRevenue[i] = Money(50)

\* reachable: the only policy is inactive, the caller asks for rise and fall, and the
\* AN revenue of the second month is escalated by 1 %
C24_InactivePolicyEscalates ==
    /\ calc.step = "ran" /\ calc.fam = "lock" /\ AnEnabled
    /\ Len(inp.policies) = 1 /\ inp.policies[1].is_active = 0
    /\ calc.req.options.rise_and_fall = 1
    /\ ~ calc.res.locks
    /\ AnRevenue[1] = (Money(50) * 101) \div 100

\* --------------------------------------------------------------------- C25
\* one tier_percent rebate on revenue, scope all, summarised in ytd mode
TierYtdCase ==
    /\ calc.fam = "rebate" /\ calc.step = "summary"
    /\ calc.res.out.status = 200 /\ calc.res.mode = "ytd"
    /\ Len(inp.rebates.head) = 1
    /\ TheRebate.kind = "tier_percent" /\ TheRebate.basis \in {"revenue", NullStr}
    /\ TheRebate.scope = NullStr

\* the running total of the rebate's basis (the BOQ revenue the summary reports) from
\* the first month of the window through month i
CumRevenue(i) == SeqSum([j \in 1..(i + 1) |-> calc.res.out.items[j - 1].revenue_boq])

LinkedLineActiveInTerm ==
    /\ TheAsset.linked_boq_item_id \in 1..Len(inp.boq)
    /\ LET line == inp.boq[TheAsset.linked_boq_item_id]
       IN  /\ line.quantity * line.unit_price > 0
           /\ \E k \in 0..(line.months - 1) :
                 YmAt(line.start_year, line.start_month, k) \in TermMonths

\* a reward-enabled asset (percent > 0, amount > 0, a term) whose spread kind is
\* follow_boq without a linked line or with a linked line that has no revenue in the
\* term, or is neither even nor follow_boq
RewardFallbackCase ==
    /\ calc.fam = "reward"
    /\ TheAsset.reward_enabled = 1
    /\ RewardPct > 0 /\ TheAsset.amount > 0 /\ RewardTerm > 0
    /\ \/ /\ TheAsset.reward_spread_kind = "follow_boq"
          /\ (TheAsset.linked_boq_item_id = NULL \/ ~ LinkedLineActiveInTerm)
       \/ TheAsset.reward_spread_kind \notin {"follow_boq", "even", NullStr}

\* C26: follow_boq with no linked line or with zero linked revenue over the term, and
\* any other spread kind, give the reward series of spread kind even -- total / term
\* in each term month from the scenario start -- and the summary answers 200.
C26_RewardFallsBackToEven ==
    (RewardFallbackCase /\ calc.step = "summary"
        /\ MonthsBetween(calc.res.frm.y, calc.res.frm.m, calc.res.to.y, calc.res.to.m) >= 1) =>
      /\ calc.res.out.status = 200
      /\ \A i \in DOMAIN calc.res.out.items :
            calc.res.out.items[i].capex_reward_rev
               = IF YmAt(calc.res.frm.y, calc.res.frm.m, i) \in TermMonths
                 THEN Round2(RewardTotal \div RewardTerm) ELSE 0

\* an asset of 1200 at 10 % over a term of 1 month (2025-01) following a line that
\* posts only in 2025-02: the whole 120 is posted in 2025-01; and an asset with an
\* unknown spread kind over 2 months posts 60 and 60
C26_Witness ==
    /\ RewardFallbackCase /\ SummaryOk
    /\ TheAsset.reward_pct = 10
    /\ calc.res.frm = MonthOf(2025, 1) /\ calc.res.to = MonthOf(2025, 3)
    /\ \/ /\ TheAsset.reward_spread_kind = "follow_boq" /\ TheAsset.linked_boq_item_id = 1
          /\ TheAsset.term_months_override = 1
          /\ calc.res.out.items[0].capex_reward_rev = Money(120)
          /\ calc.res.out.items[1].capex_reward_rev = 0
       \/ /\ TheAsset.reward_spread_kind = "front_loaded"
          /\ TheAsset.term_months_override = 2
          /\ calc.res.out.items[0].capex_reward_rev = Money(60)
          /\ calc.res.out.items[1].capex_reward_rev = Money(60)
          /\ calc.res.out.items[2].capex_reward_rev = 0

\* --------------------------------------------------------------------- C27
\* the auto-generated services / BOQ lines of CAPEX row `id`
AutoServices(id) == {k \in 1..Len(inp.services) : inp.services[k].from_capex = id}
AutoBoqItems(id) == {k \in 1..Len(inp.boq) : inp.boq[k].from_capex = id}

\* C27 as stated: after any sequence of generate calls and CAPEX create / update
\* operations on one CAPEX row, at most one auto-generated Service and at most one
\* auto-generated BOQ line exist for that row.
C27_AtMostOneGeneratedPerRow ==
    calc.fam = "capex" =>
        /\ Cardinality(AutoServices(1)) <= 1
        /\ Cardinality(AutoBoqItems(1)) <= 1

\* the second half holds: a generate call on a row that already has a link returns the
\* linked id and creates nothing
C27_LinkedGenerateCreatesNothing ==
    [][/\ (CxGenerateService /\ calc'.item_id = 1 /\ OrElse(inp.capex[1].linked_service_id, 0) # 0)
          => /\ inp' = inp
             /\ calc'.res.linked_service_id = inp.capex[1].linked_service_id
       /\ (CxGenerateBoq /\ calc'.item_id = 1 /\ OrElse(inp.capex[1].linked_boq_item_id, 0) # 0)
          => /\ inp' = inp
             /\ calc'.res.linked_boq_item_id = inp.capex[1].linked_boq_item_id]_vars

\* reachable: generate, an update whose body carries no linked_service_id, generate
\* again -- two generated services for row 1, the row linked to the second
C27_SecondServiceAfterUpdate ==
    /\ calc.fam = "capex" /\ calc.step = "generate_service"
    /\ Cardinality(AutoServices(1)) = 2
    /\ inp.capex[1].linked_service_id = 2

\* --------------------------------------------------------------------- C28
\* a percent rebate of scope all or boq next to a reward-enabled asset, summarised
RebateOnRewardCase ==
    /\ calc.fam = "rebate_reward" /\ SummaryOk
    /\ TheRebate.kind = "percent"
    /\ TheAsset.reward_enabled = 1

\* C28 as stated: the basis of a revenue rebate of scope all or boq includes the
\* month's CAPEX reward revenue: for a percent rebate rebates_contra of the month
\* = -(revenue_boq + capex_reward_rev) * pct / 100.
C28_RebateBasisIncludesReward ==
    RebateOnRewardCase =>
        \A i \in DOMAIN calc.res.out.items :
            calc.res.out.items[i].rebates_contra =
                0 - (((calc.res.out.items[i].revenue_boq
                        + calc.res.out.items[i].capex_reward_rev) * FirstTierP) \div 100)

\* reachable: 1000 of BOQ revenue and 40 of reward revenue in 2025-01 under a 10 %
\* rebate: rebates_contra is -100, not -104
C28_RewardLeftOutOfBasis ==
    /\ RebateOnRewardCase
    /\ FirstTierP = 10
    /\ calc.res.frm = MonthOf(2025, 1)
    /\ calc.res.out.items[0].revenue_boq = Money(1000)
    /\ calc.res.out.items[0].capex_reward_rev = Money(40)
    /\ calc.res.out.items[0].rebates_contra = 0 - Money(100)

\* --------------------------------------------------------------------- C29
\* two agreements in different currencies, both with a rate, scheduled and converted
MixedCurrencyCase ==
    /\ calc.fam = "services_mixed" /\ calc.step = "services"
    /\ \A k \in DOMAIN inp.services : inp.services[k].currency # NullStr
    /\ inp.services[1].currency # inp.services[2].currency

\* quantity * unit_cost of agreement k in month i, converted at the rate of its own currency
OwnRateCost(k, i) ==
    LET r == inp.services[k]
        ym == OverlayMonth(i)
    IN  IF SvcRowSelected(r, CalcScenario)
           /\ SvcCovers(r, i, Horizon, ScenarioStart.y, ScenarioStart.m)
        THEN Scale(Money(r.quantity * r.unit_cost),
                   FxRateForMonth(inp.fx, CalcScenario, r.currency, ym.y, ym.m))
        ELSE 0

\* C29 as stated: with FX applied, a month that contains agreements in different
\* currencies is converted agreement by agreement: the converted expense equals the
\* sum over the agreements of quantity * unit_cost * rate-to-base of its own currency.
C29_EachAgreementAtItsOwnRate ==
    MixedCurrencyCase =>
        \A i \in DOMAIN calc.res.fx :
            calc.res.fx[i] = SeqSum([k \in 1..Len(inp.services) |-> OwnRateCost(k, i)])

\* reachable: 50 USD (rate 2) and 50 EUR (rate 3) in 2025-01 convert to 300, the
\* whole month at the rate of the last agreement's currency, not to 250
C29_MonthAtLastCurrencyRate ==
    /\ MixedCurrencyCase
    /\ inp.services[1].currency = "USD" /\ inp.services[2].currency = "EUR"
    /\ inp.services[2].start_year = NULL
    /\ calc.res.raw.sched[0] = Money(100)
    /\ calc.res.raw.curs[0] = "EUR"
    /\ calc.res.fx[0] = Money(300)

\* --------------------------------------------------------------------- C30
ReadinessChain ==
    <<"boq_ready", "twc_ready", "capex_ready", "fx_ready", "tax_ready", "services_ready",
      "summary_ready">>

PrefixClosed(flags) ==
    \A i \in 2..Len(ReadinessChain) :
        flags[ReadinessChain[i]] => flags[ReadinessChain[i - 1]]

\* the flags of the stored scenario, as GET /workflow reports them
StoredFlags == FlagsFromModel(inp.scenarios[CalcScenario])

\* C30: after any sequence of workflow operations (BOQ mark-ready, mark-twc / capex /
\* fx / tax / services / summary-ready, reset) from a reset scenario, the readiness
\* flags are prefix-closed along boq -> twc -> capex -> fx -> tax -> services ->
\* summary: a stage's flag is true only if the flag of the stage before it is true.
\* It holds of the stored flags and of the flags every workflow handler answers.
C30_ReadinessFlagsPrefixClosed ==
    calc.fam = "workflow" =>
        /\ PrefixClosed(StoredFlags)
        /\ (calc.step \notin {"init", "mark_boq_ready"} /\ calc.res.status = 200
                => PrefixClosed(calc.res.flags))

\* the whole chain marked, one stage after the other, up to the summary
C30_Witness ==
    /\ calc.fam = "workflow"
    /\ calc.step = "mark_summary_ready" /\ calc.res.status = 200
    /\ \A i \in 1..Len(ReadinessChain) : StoredFlags[ReadinessChain[i]]
    /\ PrefixClosed(calc.res.flags)
====
